---- MODULE Spec2Model ----
(***************************************************************************)
(* Model of the meteomatics connector (src/meteomatics/src): the query     *)
(* builders of util.rs, the response decoders of util.rs and the facade    *)
(* methods of client.rs.                                                   *)
(*                                                                         *)
(* Text is modelled as a sequence of pieces.  Every character that carries *)
(* meaning in the API grammar ('/', '?', '&', ',', '+', '-', ':', '_',     *)
(* '.', '=', digits, 'P', 'T', 'S', 'D') is a piece of its own; a run of   *)
(* other characters (a parameter name, "csv") may be one piece.            *)
(* Concatenation of text is \o on these sequences.                         *)
(***************************************************************************)
EXTENDS Integers, Sequences, FiniteSets, TLC

VARIABLES
    op,         \* the operation last called ("none" before the first call)
    args,       \* its arguments
    env,        \* what the surroundings did during the call: the dependency
                \* release, the URL join, the transport, the file system
    fragment,   \* the URL fragment the call built (<<>> when it built none)
    result,     \* what the call gave back: Ok(v), Err(e), Text(s) or Panic
    requests,   \* HTTP GETs sent by the call
    decoded,    \* the call ran the CSV reader or the JSON deserializer
    written,    \* the call created/wrote the target file
    disk,       \* the file system after the call: the target's parent
                \* directories and the target file's content
    client,     \* the APIClient: username, password, timeout of its http_client
    tasks,      \* the calls running concurrently on the client, each with
                \* its position in the method
    shared,     \* the directory and the file the concurrent calls target
    finished,   \* the tasks whose write_file has returned, in that order
    loop,       \* a query_grid_png_timeseries call run step by step: its
                \* position, dt_cur, the requests sent, the files written
    response_body, \* a ResponseBody of the first revision of the connector
    legacy      \* the last call made on the first revision: its name, its
                \* arguments, the body before it, what it returned

vars == <<op, args, env, fragment, result, requests, decoded, written, disk,
          client, tasks, shared, finished, loop,
          response_body, legacy>>
call_vars == <<op, args, env, fragment, result, requests, decoded, written, disk>>
legacy_vars == <<response_body, legacy>>
task_vars == <<client, tasks, shared, finished, loop,
          response_body, legacy>>

(***************************************************************************)
(* Bounds of the model.                                                    *)
(***************************************************************************)
MaxLocations == 2      \* points or postal codes of one request
MaxOptionals == 2      \* entries of an optionals list
MaxRows == 2           \* data lines of a CSV body
MaxPreamble == 2       \* lines of a CSV body before its header line

(***************************************************************************)
(* Text helpers (what format!, join and to_string of the standard library  *)
(* do on the pieces).                                                      *)
(***************************************************************************)
Digits == <<"0", "1", "2", "3", "4", "5", "6", "7", "8", "9">>

RECURSIVE NatToStr(_)
NatToStr(n) ==
    IF n < 10 THEN <<Digits[n + 1]>>
    ELSE NatToStr(n \div 10) \o <<Digits[(n % 10) + 1]>>

\* {:0w} : n in decimal, left-padded with zeros to at least w digits
RECURSIVE PadNat(_, _)
PadNat(n, w) ==
    IF w <= 1 THEN NatToStr(n)
    ELSE IF n < 10 THEN <<"0">> \o PadNat(n, w - 1)
    ELSE PadNat(n \div 10, w - 1) \o <<Digits[(n % 10) + 1]>>

\* [String]::join(sep)
RECURSIVE Join(_, _)
Join(strs, sep) ==
    IF Len(strs) = 0 THEN <<>>
    ELSE IF Len(strs) = 1 THEN strs[1]
    ELSE strs[1] \o sep \o Join(Tail(strs), sep)

Contains(str, piece) == \E i \in 1..Len(str) : str[i] = piece

SeqsUpTo(S, n) == UNION {[1..k -> S] : k \in 0..n}

(***************************************************************************)
(* Values.  Option<T>: None / Some(x).  A call that aborts (a panic from   *)
(* unwrap()) is the value Panic; a text result is Text(s).                 *)
(***************************************************************************)
None == [some |-> FALSE]
Some(x) == [some |-> TRUE, val |-> x]

Panic == [kind |-> "panic"]
Text(s) == [kind |-> "text", val |-> s]

(***************************************************************************)
(* chrono::DateTime<Utc>: seconds since 2022-05-01T00:00:00Z (the model's  *)
(* instants lie in May 2022) and the nanoseconds of the second.            *)
(* chrono::Duration: whole seconds (may be negative) and nanoseconds.      *)
(***************************************************************************)
DateTime(secs, nanos) == [secs |-> secs, nanos |-> nanos]
Duration(secs, nanos) == [secs |-> secs, nanos |-> nanos]

\* a rendering that stops at microseconds
FractionToMicros(nanos) ==
    IF nanos = 0 THEN <<>>
    ELSE IF nanos % 1000000 = 0 THEN <<".">> \o PadNat(nanos \div 1000000, 3)
    ELSE <<".">> \o PadNat(nanos \div 1000, 6)

\* the sub-second part as chrono writes it: nothing, 3, 6 or 9 digits
Fraction(nanos) ==
    IF nanos = 0 THEN <<>>
    ELSE IF nanos % 1000000 = 0 THEN <<".">> \o PadNat(nanos \div 1000000, 3)
    ELSE IF nanos % 1000 = 0 THEN <<".">> \o PadNat(nanos \div 1000, 6)
    ELSE <<".">> \o PadNat(nanos, 9)

\* DateTime<Utc>::to_rfc3339()
to_rfc3339(dt) ==
    LET day == (dt.secs \div 86400) + 1
        sod == dt.secs % 86400
    IN  <<"2", "0", "2", "2", "-", "0", "5", "-">> \o PadNat(day, 2)
        \o <<"T">> \o PadNat(sod \div 3600, 2)
        \o <<":">> \o PadNat((sod % 3600) \div 60, 2)
        \o <<":">> \o PadNat(sod % 60, 2)
        \o Fraction(dt.nanos)
        \o <<"+", "0", "0", ":", "0", "0">>

\* -d for a chrono::Duration (nanos stay in 0..10^9-1)
DurationNeg(d) ==
    IF d.nanos = 0 THEN Duration(0 - d.secs, 0)
    ELSE Duration(0 - d.secs - 1, 1000000000 - d.nanos)

\* the sub-second part of a step as the later chrono releases write it:
\* the significant digits only
RECURSIVE StripZeros(_)
StripZeros(str) ==
    IF Len(str) > 0 /\ str[Len(str)] = "0"
    THEN StripZeros(SubSeq(str, 1, Len(str) - 1))
    ELSE str

(***************************************************************************)
(* Display of chrono::Duration, which `{}` of timedelta.unwrap() calls.    *)
(* The crate is a dependency, and its releases differ: up to 0.4.31 whole  *)
(* days are split off ("P1D", "P1DT3600S"); later releases write the total *)
(* seconds ("PT86400S") and "P0D" for the zero step.  `flavour` is the     *)
(* release the build resolved to.                                          *)
(***************************************************************************)
ChronoFlavours == {"days_split", "seconds_only"}

DurationDisplayDaysSplit(d) ==
    LET neg == d.secs < 0
        abs == IF neg THEN DurationNeg(d) ELSE d
        days == abs.secs \div 86400
        secs == abs.secs - days * 86400
        hasdate == days # 0
        hastime == (secs # 0 \/ abs.nanos # 0) \/ ~hasdate
    IN  (IF neg THEN <<"-">> ELSE <<>>) \o <<"P">>
        \o (IF hasdate THEN NatToStr(days) \o <<"D">> ELSE <<>>)
        \o (IF hastime
            THEN <<"T">> \o NatToStr(secs) \o Fraction(abs.nanos) \o <<"S">>
            ELSE <<>>)

DurationDisplaySecondsOnly(d) ==
    LET neg == d.secs < 0
        abs == IF neg THEN DurationNeg(d) ELSE d
    IN  (IF neg THEN <<"-">> ELSE <<>>) \o <<"P">>
        \o (IF abs.secs = 0 /\ abs.nanos = 0 THEN <<"0", "D">>
            ELSE <<"T">> \o NatToStr(abs.secs)
                 \o (IF abs.nanos > 0
                     THEN <<".">> \o StripZeros(PadNat(abs.nanos, 9))
                     ELSE <<>>)
                 \o <<"S">>)

DurationDisplay(d, flavour) ==
    IF flavour = "days_split" THEN DurationDisplayDaysSplit(d)
    ELSE DurationDisplaySecondsOnly(d)

(***************************************************************************)
(* util.rs: TimeSeries and its Display.  timedelta.unwrap() aborts when    *)
(* the step is None.                                                       *)
(***************************************************************************)
TimeSeries(start, end, timedelta) ==
    [start |-> start, end |-> end, timedelta |-> timedelta]

TimeSeriesDisplay(ts, flavour) ==
    IF ~ts.timedelta.some THEN Panic
    ELSE Text(to_rfc3339(ts.start) \o <<"-", "-">> \o to_rfc3339(ts.end)
              \o <<":">> \o DurationDisplay(ts.timedelta.val, flavour))

(***************************************************************************)
(* location.rs.  An f64 coordinate is modelled as an integer number of     *)
(* millionths; f64::to_string writes the shortest decimal that reads back. *)
(***************************************************************************)
F64ToString(x) ==
    LET abs == IF x < 0 THEN 0 - x ELSE x
        whole == abs \div 1000000
        frac == abs % 1000000
    IN  (IF x < 0 THEN <<"-">> ELSE <<>>) \o NatToStr(whole)
        \o (IF frac = 0 THEN <<>>
            ELSE <<".">> \o StripZeros(PadNat(frac, 6)))

Point(lat, lon) == [lat |-> lat, lon |-> lon]

PointDisplay(p) == F64ToString(p.lat) \o <<",">> \o F64ToString(p.lon)

\* the two corners only, as the lightning query writes its box
BBoxDisplayCorners(b) ==
    F64ToString(b.lat_max) \o <<",">> \o F64ToString(b.lon_min) \o <<"_">>
    \o F64ToString(b.lat_min) \o <<",">> \o F64ToString(b.lon_max)

\* the fields written in the order the struct declares them
BBoxDisplayDeclared(b) ==
    F64ToString(b.lat_min) \o <<",">> \o F64ToString(b.lat_max) \o <<"_">>
    \o F64ToString(b.lon_min) \o <<",">> \o F64ToString(b.lon_max) \o <<":">>
    \o F64ToString(b.lat_res) \o <<",">> \o F64ToString(b.lon_res)

BBoxDisplay(b) ==
    F64ToString(b.lat_max) \o <<",">> \o F64ToString(b.lon_min) \o <<"_">>
    \o F64ToString(b.lat_min) \o <<",">> \o F64ToString(b.lon_max) \o <<":">>
    \o F64ToString(b.lat_res) \o <<",">> \o F64ToString(b.lon_res)

\* the points joined by ',' like the parameters
points_to_str_comma(coords) ==
    Join([i \in 1..Len(coords) |-> PointDisplay(coords[i])], <<",">>)

\* util.rs: points_to_str
points_to_str(coords) ==
    Join([i \in 1..Len(coords) |-> PointDisplay(coords[i])], <<"+">>)


(***************************************************************************)
(* util.rs: the query builders.  `{}` of a TimeSeries is its Display, so a *)
(* builder aborts where that aborts.                                       *)
(***************************************************************************)
\* a builder that drops a parameter it has already written
RECURSIVE Dedup(_)
Dedup(strs) ==
    IF Len(strs) = 0 THEN <<>>
    ELSE LET front == SubSeq(strs, 1, Len(strs) - 1)
         IN  IF \E i \in 1..Len(front) : front[i] = strs[Len(strs)]
             THEN Dedup(front)
             ELSE Dedup(front) \o <<strs[Len(strs)]>>
build_ts_query_specs_dedup(time_series, parameters, coords_str, optionals, format, flavour) ==
    LET time == TimeSeriesDisplay(time_series, flavour)
    IN  IF time.kind = "panic" THEN Panic
        ELSE LET query_specs == time.val \o <<"/">> \o Join(Dedup(parameters), <<",">>)
                                \o <<"/">> \o coords_str \o <<"/">> \o format
             IN  IF ~optionals.some THEN Text(query_specs)
                 ELSE Text(query_specs \o <<"?">> \o Join(optionals.val, <<"&">>))

build_ts_query_specs(time_series, parameters, coords_str, optionals, format, flavour) ==
    LET time == TimeSeriesDisplay(time_series, flavour)
    IN  IF time.kind = "panic" THEN Panic
        ELSE LET query_specs == time.val \o <<"/">> \o Join(parameters, <<",">>)
                                \o <<"/">> \o coords_str \o <<"/">> \o format
             IN  IF ~optionals.some THEN Text(query_specs)
                 ELSE Text(query_specs \o <<"?">> \o Join(optionals.val, <<"&">>))

build_grid_query_specs(timestamp, parameter, coords_str, optionals, format) ==
    LET query_specs == to_rfc3339(timestamp) \o <<"/">> \o parameter
                       \o <<"/">> \o coords_str \o <<"/">> \o format
    IN  IF ~optionals.some THEN Text(query_specs)
        ELSE Text(query_specs \o <<"?">> \o Join(optionals.val, <<"&">>))

build_grid_ts_query_specs(time_series, parameter, coords_str, format, optionals, flavour) ==
    LET time == TimeSeriesDisplay(time_series, flavour)
    IN  IF time.kind = "panic" THEN Panic
        ELSE LET query_specs == time.val \o <<"/">> \o parameter
                                \o <<"/">> \o coords_str \o <<"/">> \o format
             IN  IF ~optionals.some THEN Text(query_specs)
                 ELSE Text(query_specs \o <<"?">> \o Join(optionals.val, <<"&">>))

\* the time range written through Display for TimeSeries, step included
build_grid_ts_lightning_query_specs_display(time_series, coords_str) ==
    LET time == TimeSeriesDisplay(time_series, "days_split")
    IN  IF time.kind = "panic" THEN Panic
        ELSE Text(<<"get_lightning_list", "?", "time_range", "=">> \o time.val
                  \o <<"&", "bounding_box", "=">> \o coords_str
                  \o <<"&", "format", "=", "csv">>)

build_grid_ts_lightning_query_specs(time_series, coords_str) ==
    Text(<<"get_lightning_list", "?", "time_range", "=">>
         \o to_rfc3339(time_series.start) \o <<"-", "-">>
         \o to_rfc3339(time_series.end)
         \o <<"&", "bounding_box", "=">> \o coords_str
         \o <<"&", "format", "=", "csv">>)

\* the locations written before the parameters
build_route_query_specs_swapped(dates, parameters, coords_str) ==
    Text(dates \o <<"/">> \o coords_str \o <<"/">> \o parameters
         \o <<"/", "csv", "?", "route", "=", "true">>)

build_route_query_specs(dates, parameters, coords_str) ==
    Text(dates \o <<"/">> \o parameters \o <<"/">> \o coords_str
         \o <<"/", "csv", "?", "route", "=", "true">>)


(***************************************************************************)
(* errors.rs: ConnectorError, and Result.                                  *)
(***************************************************************************)
Ok(v) == [kind |-> "Ok", val |-> v]
Err(e) == [kind |-> "Err", err |-> e]

ReqwestError == [variant |-> "ReqwestError"]
PolarsError == [variant |-> "PolarsError"]
ParseError == [variant |-> "ParseError"]
FileIOError == [variant |-> "FileIOError"]
HttpError(text, body, status) ==
    [variant |-> "HttpError", text |-> text, body |-> body, status |-> status]

\* reqwest::StatusCode: Display writes the code and its canonical reason
Reason(status) ==
    CASE status = 200 -> <<"OK">>
      [] status = 204 -> <<"No Content">>
      [] status = 403 -> <<"Forbidden">>
      [] status = 500 -> <<"Internal Server Error">>
      [] OTHER -> <<"<unknown status code>">>

status_to_string(status) == NatToStr(status) \o <<" ">> \o Reason(status)

(***************************************************************************)
(* polars.  A DataFrame is a sequence of columns [name, values]; a value   *)
(* is a string cell Utf8(text), a float cell F64(x) or Null.  A CSV body   *)
(* is the sequence of its lines, a line the sequence of its ';'-separated  *)
(* fields, a field a text.  The reader's typing of numeric fields is not   *)
(* modelled: a parsed cell is Utf8 of its field.                           *)
(***************************************************************************)
Utf8(text) == [utf8 |-> text]
F64(x) == [f64 |-> x]
Null == [null |-> TRUE]

Column(name, values) == [name |-> name, values |-> values]

ColumnNames(df) == [j \in 1..Len(df) |-> df[j].name]

Height(df) == IF Len(df) = 0 THEN 0 ELSE Len(df[1].values)

HasColumn(df, name) == \E j \in 1..Len(df) : df[j].name = name

Distinct(names) ==
    \A i, j \in 1..Len(names) : names[i] = names[j] => i = j

\* CsvReader::new(body) ;-delimited, has_header(true), with_skip_rows(skip_rows),
\* parser errors not ignored: the line after the skipped ones is the header;
\* a body without one is an error, and so is a line with more fields than
\* the header; a shorter line is filled with nulls.
CsvReaderFinish(body, skip_rows) ==
    IF Len(body) <= skip_rows THEN Err(PolarsError)
    ELSE LET header == body[skip_rows + 1]
             n == Len(body) - skip_rows - 1
             line(i) == body[skip_rows + 1 + i]
         IN  IF \E i \in 1..n : Len(line(i)) > Len(header) THEN Err(PolarsError)
             ELSE Ok([j \in 1..Len(header) |->
                        Column(header[j],
                               [i \in 1..n |-> IF j <= Len(line(i))
                                               THEN Utf8(line(i)[j])
                                               ELSE Null])])

\* DataFrame::hstack: the columns appended on the right; a name that is
\* already there is an error
hstack(df, columns) ==
    IF Distinct(ColumnNames(df \o columns)) THEN Ok(df \o columns)
    ELSE Err(PolarsError)

\* a rename by place: the stroke time first, its latitude second, its
\* longitude third
rename_by_position(df, column, name) ==
    LET pos == CASE column = <<"stroke_time:sql">> -> 1
                 [] column = <<"stroke_lat:d">> -> 2
                 [] OTHER -> 3
    IN  IF Len(df) < pos THEN Err(PolarsError)
        ELSE LET out == [j \in 1..Len(df) |->
                            IF j = pos THEN Column(name, df[j].values) ELSE df[j]]
             IN  IF Distinct(ColumnNames(out)) THEN Ok(out) ELSE Err(PolarsError)

\* DataFrame::rename: the column of that name, wherever it is, gets the new
\* name; no such column, or a name then held twice, is an error
rename(df, column, name) ==
    IF ~HasColumn(df, column) THEN Err(PolarsError)
    ELSE LET out == [j \in 1..Len(df) |->
                        IF df[j].name = column
                        THEN Column(name, df[j].values) ELSE df[j]]
         IN  IF Distinct(ColumnNames(out)) THEN Ok(out) ELSE Err(PolarsError)

(***************************************************************************)
(* util.rs: the decoders.  `response` is what the transport delivered:     *)
(* [status, readable, body]; readable = FALSE is a body whose read fails   *)
(* (text(), bytes() or json() return Err).                                 *)
(***************************************************************************)
SKIP_ROWS_TIDY == 0
SKIP_ROWS_PIVOTED == 2

parse_response_to_df(response) ==
    IF ~response.readable THEN Panic
    ELSE CsvReaderFinish(response.body, SKIP_ROWS_TIDY)

\* the pivoted decoder skipping one line only
parse_grid_response_skip_one(response) ==
    IF ~response.readable THEN Panic
    ELSE CsvReaderFinish(response.body, 1)

parse_grid_response_to_df(response) ==
    IF ~response.readable THEN Panic
    ELSE CsvReaderFinish(response.body, SKIP_ROWS_PIVOTED)

Replicate(v, n) == [i \in 1..n |-> v]

\* lat and lon put after the parsed columns
df_add_latlon_appended(df_in, point) ==
    LET n == Height(df_in)
        df_tmp == <<Column(<<"lat">>, Replicate(F64(point.lat), n)),
                    Column(<<"lon">>, Replicate(F64(point.lon), n))>>
    IN  hstack(df_in, df_tmp)

df_add_latlon(df_in, point) ==
    LET n == Height(df_in)
        df_tmp == <<Column(<<"lat">>, Replicate(F64(point.lat), n)),
                    Column(<<"lon">>, Replicate(F64(point.lon), n))>>
    IN  hstack(df_tmp, df_in)

\* station_id filled for the header line too (one cell too many)
df_add_postal_width(df_in, postal) ==
    LET n == Height(df_in) + 1
        df_tmp == <<Column(<<"station_id">>, Replicate(Utf8(postal), n))>>
    IN  hstack(df_tmp, df_in)

df_add_postal(df_in, postal) ==
    LET n == Height(df_in)
        df_tmp == <<Column(<<"station_id">>, Replicate(Utf8(postal), n))>>
    IN  hstack(df_tmp, df_in)

\* response.json::<UStatsResponse>(): the body is one JSON object whose
\* members include, once each, "message" and "user statistics"; other
\* members are ignored; a text that is no JSON object does not match
MESSAGE == <<"message">>
USER_STATISTICS == <<"user statistics">>
NOT_JSON == <<"<html>">>
Count(str, piece) == Cardinality({i \in 1..Len(str) : str[i] = piece})
JsonMatches(body) ==
    /\ Len(body) = 1
    /\ ~Contains(body[1], NOT_JSON)
    /\ Count(body[1], MESSAGE) = 1
    /\ Count(body[1], USER_STATISTICS) = 1

extract_user_statistics(response) ==
    IF response.readable /\ JsonMatches(response.body) THEN Ok(response.body)
    ELSE Err(ReqwestError)

\* the content of the target file before the call (no content when there
\* is no such file)
OldContent(fs) == IF fs.before.some THEN fs.before.val ELSE <<>>

\* a write_file that opened the file for appending
write_file_append(response, fs) ==
    IF ~response.readable THEN Panic
    ELSE IF fs.write # "ok" THEN Err(FileIOError)
    ELSE Ok(OldContent(fs) \o response.body)

\* write_file: bytes().unwrap(), File::create(file_name)?, io::copy(..)?
\* File::create makes the file or truncates the one that is there, io::copy
\* writes the whole body: Ok carries the content the file then holds
write_file(response, fs) ==
    IF ~response.readable THEN Panic
    ELSE IF fs.write # "ok" THEN Err(FileIOError)
    ELSE Ok(response.body)

\* a create_path that dropped the error of create_dir_all
create_path_unchecked(fs) ==
    IF fs.mkdir = "no_parent" THEN Panic ELSE Ok("unit")

\* create_path: Path::new(file_name).parent().unwrap(), then create_dir_all
\* of the parent directory when it is missing
create_path(fs) ==
    IF fs.mkdir = "no_parent" THEN Panic
    ELSE IF fs.mkdir = "fails" THEN Err(FileIOError)
    ELSE Ok("unit")


(***************************************************************************)
(* Inputs.                                                                 *)
(***************************************************************************)
\* 2022-05-17T12:00:00 with no, millisecond, microsecond and nanosecond
\* fraction
Noon17 == 16 * 86400 + 43200
Starts == {DateTime(Noon17, 0), DateTime(Noon17, 120000000),
           DateTime(Noon17, 453829000), DateTime(Noon17, 453829123)}

PlusOneDay(dt) == DateTime(dt.secs + 86400, dt.nanos)

\* no step, 1 h, 12 h, 1 day, 25 h, 2 days, zero, half a second, minus 1 h
Timedeltas ==
    {None} \cup
    {Some(Duration(secs, 0)) : secs \in {3600, 43200, 86400, 90000, 172800, 0, 0 - 3600}}
    \cup {Some(Duration(0, 500000000))}

\* an end one day after the start, and ends whose fraction is not the start's
TimeSeriesInputs ==
    {TimeSeries(start, PlusOneDay(start), timedelta) :
        start \in Starts, timedelta \in Timedeltas}
    \cup {TimeSeries(DateTime(Noon17, 0), DateTime(Noon17 + 86400 + 59, nanos),
                     Some(Duration(3600, 0))) : nanos \in {1, 453829123}}

T_2M == <<"t_2m:C">>
PRECIP == <<"precip_1h:mm">>
ParamLists == {<<>>, <<T_2M>>, <<T_2M, PRECIP>>, <<PRECIP, T_2M>>, <<T_2M, T_2M>>}

Points == {Point(52520551, 13461804), Point(0 - 52520551, 13461804)}
PointLists == SeqsUpTo(Points, MaxLocations)

Postals == {<<"postal_CH9000">>, <<"postal_CH8000">>}
PostalLists == SeqsUpTo(Postals, MaxLocations)

BBox(lat_min, lat_max, lon_min, lon_max, lat_res, lon_res) ==
    [lat_min |-> lat_min, lat_max |-> lat_max, lon_min |-> lon_min,
     lon_max |-> lon_max, lat_res |-> lat_res, lon_res |-> lon_res]
World == BBox(0 - 90000000, 90000000, 0 - 180000000, 180000000, 5000000, 5000000)
StGallen == BBox(47423000, 47424000, 9369000, 9370000, 500, 500)
BBoxes == {World, StGallen}
\* boxes for the Display alone: also the one of the lightning example and
\* one whose six fields all differ in their integer part
Switzerland == BBox(45817971, 47808464, 5955911, 10492294, 0, 0)
BBoxInputs ==
    BBoxes \cup {Switzerland,
                 BBox(0 - 1500000, 2000000, 0 - 3250000, 4000000, 5000000, 6000000)}

\* coords_str of a builder: no, one and two points, and a box
CoordStrs == {points_to_str(ps) :
                ps \in {<<>>, <<Point(52520551, 13461804)>>,
                        <<Point(52520551, 13461804), Point(0 - 52520551, 13461804)>>}}
             \cup {BBoxDisplay(World)}

OptionalEntries == {<<"a=b">>, <<"c=d">>}
OptionalsInputs ==
    {None} \cup {Some(entries) : entries \in SeqsUpTo(OptionalEntries, MaxOptionals)}

Formats == {<<"csv">>, <<"netcdf">>, <<"png">>}

(***************************************************************************)
(* What the transport can deliver.  A CSV body: up to MaxPreamble lines,   *)
(* a header line, up to MaxRows data lines of the header's width, and      *)
(* possibly one more line that is longer or shorter than the header.  The  *)
(* fields of one line are pairwise different.                              *)
(***************************************************************************)
VALIDDATE == <<"validdate">>
LAT == <<"lat">>
LON == <<"lon">>
STATION_ID == <<"station_id">>
STROKE_TIME == <<"stroke_time:sql">>
STROKE_LAT == <<"stroke_lat:d">>
STROKE_LON == <<"stroke_lon:d">>
STROKE_CURRENT == <<"stroke_current:kA">>

Headers ==
    { <<VALIDDATE, T_2M>>,
      <<LAT, LON, VALIDDATE, T_2M>>,
      <<STATION_ID, VALIDDATE, T_2M>>,
      <<<<"data">>, <<"9.369">>, <<"9.37">>>>,
      <<STROKE_TIME, STROKE_LAT, STROKE_LON, STROKE_CURRENT>>,
      <<STROKE_CURRENT, STROKE_LON, STROKE_TIME, STROKE_LAT>>,
      <<STROKE_TIME, STROKE_LAT>>,
      <<STROKE_LAT, LAT, STROKE_TIME, STROKE_LON>> }

Letters == <<"a", "b", "c", "d", "e", "f">>

PreambleLines(k) == [i \in 1..k |-> <<<<"meta">>, <<Digits[i + 1]>>>>]
DataLines(width, n) ==
    [i \in 1..n |-> [j \in 1..width |-> <<Letters[i], Digits[j + 1]>>]]
LongLine == [j \in 1..5 |-> <<"x", Digits[j + 1]>>]
ShortLine == <<<<"y">>>>

CsvBodies ==
    {<<>>} \cup
    { PreambleLines(k) \o <<header>> \o DataLines(Len(header), n) \o extra :
        k \in 0..MaxPreamble, header \in Headers, n \in 0..MaxRows,
        extra \in {<<>>, <<LongLine>>, <<ShortLine>>} }

\* bodies sent with an error status: a message, and a well-formed CSV
ErrorBodies == { <<<<<<"forbidden">>>>>>,
                 <<<<VALIDDATE, T_2M>>, <<<<"a", "1">>, <<"a", "2">>>>>> }

\* a JSON body: the members of its object in the order sent, or no JSON
JsonBodies ==
    {<<>>, <<<<NOT_JSON>>>>}
    \cup {<<members>> : members \in SeqsUpTo({MESSAGE, USER_STATISTICS, <<"extra">>}, 3)}

\* binary payloads (chunks of bytes)
Payloads == {<<>>, <<<<<<"N">>>>>>, <<<<<<"N">>>>, <<<<"C">>>>>>}

Statuses == {200, 204, 403, 500}

NotAsked == [kind |-> "not_asked"]
TransportError == [kind |-> "error"]
Response(status, readable, body) ==
    [kind |-> "response", status |-> status, readable |-> readable, body |-> body]

\* the outcomes of one GET whose 200 body is drawn from `bodies`
Transports(bodies) ==
    {TransportError}
    \cup {Response(status, FALSE, <<>>) : status \in Statuses}
    \cup {Response(status, TRUE, body) :
            status \in Statuses \ {200}, body \in ErrorBodies}
    \cup {Response(200, TRUE, body) : body \in bodies}


(***************************************************************************)
(* The builders called on their own (as the unit tests of util.rs do).     *)
(***************************************************************************)
\* a call starts when no call's outcome is held
Idle == op = "none"

NoEnv(flavour) ==
    [flavour |-> flavour, url |-> "unused", transport |-> NotAsked,
     mkdir |-> "unused", write |-> "unused", before |-> None, steps |-> <<>>]

\* no call has touched the file system
NoDisk == [parents |-> "unused", file |-> None, files |-> <<>>]

Built(name, a, flavour, specs) ==
    /\ op' = name
    /\ args' = a
    /\ env' = NoEnv(flavour)
    /\ fragment' = IF specs.kind = "text" THEN specs.val ELSE <<>>
    /\ result' = specs
    /\ requests' = 0
    /\ decoded' = FALSE
    /\ written' = FALSE
    /\ disk' = NoDisk
    /\ UNCHANGED task_vars

BuildTs ==
    /\ Idle
    /\ \E time_series \in TimeSeriesInputs, parameters \in ParamLists,
       coords_str \in CoordStrs, optionals \in OptionalsInputs,
       format \in Formats, flavour \in ChronoFlavours :
        Built("build_ts_query_specs",
              [time_series |-> time_series, parameters |-> parameters,
               coords_str |-> coords_str, optionals |-> optionals,
               format |-> format],
              flavour,
              build_ts_query_specs(time_series, parameters, coords_str,
                                   optionals, format, flavour))

BuildGrid ==
    /\ Idle
    /\ \E timestamp \in Starts, parameters \in ParamLists,
       coords_str \in CoordStrs, optionals \in OptionalsInputs,
       format \in Formats :
        Built("build_grid_query_specs",
              [timestamp |-> timestamp, parameter |-> Join(parameters, <<",">>),
               coords_str |-> coords_str, optionals |-> optionals,
               format |-> format],
              "unused",
              build_grid_query_specs(timestamp, Join(parameters, <<",">>),
                                     coords_str, optionals, format))

BuildGridTs ==
    /\ Idle
    /\ \E time_series \in TimeSeriesInputs, parameter \in {T_2M, PRECIP, <<>>},
       coords_str \in CoordStrs, optionals \in OptionalsInputs,
       format \in Formats, flavour \in ChronoFlavours :
        Built("build_grid_ts_query_specs",
              [time_series |-> time_series, parameter |-> parameter,
               coords_str |-> coords_str, optionals |-> optionals,
               format |-> format],
              flavour,
              build_grid_ts_query_specs(time_series, parameter, coords_str,
                                        format, optionals, flavour))

BuildLightning ==
    /\ Idle
    /\ \E time_series \in TimeSeriesInputs, coords_str \in CoordStrs :
        Built("build_grid_ts_lightning_query_specs",
              [time_series |-> time_series, coords_str |-> coords_str],
              "unused",
              build_grid_ts_lightning_query_specs(time_series, coords_str))

BuildRoute ==
    /\ Idle
    /\ \E dates \in SeqsUpTo(Starts, MaxLocations), parameters \in ParamLists,
       coords_str \in CoordStrs :
        LET dates_str == Join([i \in 1..Len(dates) |-> to_rfc3339(dates[i])], <<",">>)
            params_str == Join(parameters, <<",">>)
        IN  Built("build_route_query_specs",
                  [dates |-> dates_str, parameters |-> params_str,
                   coords_str |-> coords_str],
                  "unused",
                  build_route_query_specs(dates_str, params_str, coords_str))

\* format!("{}", bbox), as tests::check_grid_string calls it
FormatBBox ==
    /\ Idle
    /\ \E bbox \in BBoxInputs :
        Built("BBox::fmt", [bbox |-> bbox], "unused", Text(BBoxDisplay(bbox)))

\* points_to_str(&coords), as tests::check_locations_string calls it
PointsToStr ==
    /\ Idle
    /\ \E coords \in PointLists :
        Built("points_to_str", [coords |-> coords], "unused",
              Text(points_to_str(coords)))

(***************************************************************************)
(* client.rs: the facade.  Every method builds its fragment, joins it to   *)
(* the base URL, sends one GET and matches on the outcome.  What a call    *)
(* leaves behind is Outcome(result, requests, decoded, written).           *)
(***************************************************************************)
Outcome(r, sent, d, w) ==
    [result |-> r, requests |-> sent, decoded |-> d, written |-> w]

\* a facade that took every 2xx status for success
StatusIsSuccess(status) == status \in 200..299

\* the arm `StatusCode::OK =>` of `match response.status()`
StatusIsOk(status) == status = 200

\* a facade that sent the request again after a transport failure
MatchResultRetry(transport, on_ok) ==
    IF transport.kind = "error" THEN Outcome(Err(ReqwestError), 2, FALSE, FALSE)
    ELSE IF StatusIsOk(transport.status) THEN on_ok
    ELSE IF ~transport.readable THEN Outcome(Panic, 1, FALSE, FALSE)
    ELSE Outcome(Err(HttpError(status_to_string(transport.status),
                               transport.body, transport.status)),
                 1, FALSE, FALSE)

\* match result { Ok(response) => match response.status() {
\*     StatusCode::OK => on_ok,
\*     status => Err(HttpError(status.to_string(), response.text().await.unwrap(), status)) },
\*   Err(e) => Err(ReqwestError(..)) }
MatchResult(transport, on_ok) ==
    IF transport.kind = "error" THEN Outcome(Err(ReqwestError), 1, FALSE, FALSE)
    ELSE IF StatusIsOk(transport.status) THEN on_ok
    ELSE IF ~transport.readable THEN Outcome(Panic, 1, FALSE, FALSE)
    ELSE Outcome(Err(HttpError(status_to_string(transport.status),
                               transport.body, transport.status)),
                 1, FALSE, FALSE)

\* a facade that unwrapped the joined URL
DispatchUnwrap(query_specs, u, on_ok) ==
    IF query_specs.kind = "panic" THEN Outcome(Panic, 0, FALSE, FALSE)
    ELSE IF u.url = "rejected" THEN Outcome(Panic, 0, FALSE, FALSE)
    ELSE MatchResult(u.transport, on_ok)

\* build_url(..).map_err(|_| ParseError)?, do_http_get, match
\* (u.url is what Url::join made of the fragment)
Dispatch(query_specs, u, on_ok) ==
    IF query_specs.kind = "panic" THEN Outcome(Panic, 0, FALSE, FALSE)
    ELSE IF u.url = "rejected" THEN Outcome(Err(ParseError), 0, FALSE, FALSE)
    ELSE MatchResult(u.transport, on_ok)

\* parse..(response).await.map_err(|e| PolarsError(..))?; Ok(df)
DfOutcome(parsed) ==
    IF parsed.kind = "panic" THEN Outcome(Panic, 1, FALSE, FALSE)
    ELSE IF parsed.kind = "Err" THEN Outcome(Err(PolarsError), 1, TRUE, FALSE)
    ELSE Outcome(Ok(parsed.val), 1, TRUE, FALSE)

\* the ways the URL join and the GET of a call can go
UrlAndTransport(query_specs, bodies) ==
    IF query_specs.kind = "panic"
    THEN {[url |-> "unused", transport |-> NotAsked]}
    ELSE {[url |-> "rejected", transport |-> NotAsked]}
         \cup {[url |-> "ok", transport |-> t] : t \in Transports(bodies)}

NoFs == [mkdir |-> "unused", write |-> "unused", before |-> None]

\* the parent directories of the target after create_path
ParentsAfter(fs) ==
    IF fs.mkdir = "unused" THEN "unused"
    ELSE IF fs.mkdir \in {"fails", "no_parent"} THEN "missing"
    ELSE "exist"

\* the target file after the call: what write_file left, else what was there
FileAfter(fs, out) ==
    IF "file" \in DOMAIN out THEN out.file ELSE fs.before

Called(name, a, flavour, fs, query_specs, u, out) ==
    /\ op' = name
    /\ args' = a
    /\ env' = [flavour |-> flavour, url |-> u.url, transport |-> u.transport,
               mkdir |-> fs.mkdir, write |-> fs.write, before |-> fs.before,
               steps |-> <<>>]
    /\ fragment' = IF query_specs.kind = "text" THEN query_specs.val ELSE <<>>
    /\ result' = out.result
    /\ requests' = out.requests
    /\ decoded' = out.decoded
    /\ written' = out.written
    /\ disk' = [parents |-> ParentsAfter(fs), file |-> FileAfter(fs, out),
                files |-> <<>>]
    /\ UNCHANGED task_vars

\* the facade's arguments
FacadeTimeSeries ==
    {TimeSeries(DateTime(Noon17, 0), DateTime(Noon17 + 86400, 0), timedelta) :
        timedelta \in {None, Some(Duration(3600, 0))}}
FacadeParams == {<<T_2M>>, <<T_2M, PRECIP>>, <<PRECIP, T_2M>>, <<T_2M, T_2M>>}
FacadeOptionals == {None, Some(<<<<"a=b">>>>)}

query_time_series ==
    /\ Idle
    /\ \E time_series \in FacadeTimeSeries, coordinates \in PointLists,
          optionals \in FacadeOptionals, flavour \in ChronoFlavours :
        LET parameters == <<T_2M>>
            needs_latlon == Len(coordinates) = 1
            coords_str == points_to_str(coordinates)
            query_specs == build_ts_query_specs(time_series, parameters, coords_str,
                                                optionals, <<"csv">>, flavour)
        IN  \E u \in UrlAndTransport(query_specs, CsvBodies) :
              LET df == parse_response_to_df(u.transport)
                  on_ok ==
                    IF needs_latlon /\ df.kind = "Ok"
                    THEN DfOutcome(df_add_latlon(df.val, coordinates[1]))
                    ELSE DfOutcome(df)
              IN  Called("query_time_series",
                         [time_series |-> time_series, parameters |-> parameters,
                          coordinates |-> coordinates, optionals |-> optionals],
                         flavour, NoFs, query_specs, u,
                         Dispatch(query_specs, u, on_ok))

query_time_series_postal ==
    /\ Idle
    /\ \E time_series \in FacadeTimeSeries, postals \in PostalLists,
          optionals \in FacadeOptionals, flavour \in ChronoFlavours :
        LET parameters == <<T_2M>>
            needs_latlon == Len(postals) = 1
            coords_str == Join(postals, <<"+">>)
            query_specs == build_ts_query_specs(time_series, parameters, coords_str,
                                                optionals, <<"csv">>, flavour)
        IN  \E u \in UrlAndTransport(query_specs, CsvBodies) :
              LET df == parse_response_to_df(u.transport)
                  on_ok ==
                    IF needs_latlon /\ df.kind = "Ok"
                    THEN DfOutcome(df_add_postal(df.val, postals[1]))
                    ELSE DfOutcome(df)
              IN  Called("query_time_series_postal",
                         [time_series |-> time_series, parameters |-> parameters,
                          postals |-> postals, optionals |-> optionals],
                         flavour, NoFs, query_specs, u,
                         Dispatch(query_specs, u, on_ok))

query_grid_pivoted ==
    /\ Idle
    /\ \E bbox \in BBoxes, optionals \in FacadeOptionals :
        LET timestamp == DateTime(Noon17, 0)
            parameter == T_2M
            coords_str == BBoxDisplay(bbox)
            query_specs == build_grid_query_specs(timestamp, parameter, coords_str,
                                                  optionals, <<"csv">>)
        IN  \E u \in UrlAndTransport(query_specs, CsvBodies) :
              Called("query_grid_pivoted",
                     [timestamp |-> timestamp, parameter |-> parameter,
                      bbox |-> bbox, optionals |-> optionals],
                     "unused", NoFs, query_specs, u,
                     Dispatch(query_specs, u,
                              DfOutcome(parse_grid_response_to_df(u.transport))))

query_grid_unpivoted ==
    /\ Idle
    /\ \E parameters \in FacadeParams, bbox \in BBoxes, optionals \in FacadeOptionals :
        LET timestamp == DateTime(Noon17, 0)
            coords_str == BBoxDisplay(bbox)
            params == Join(parameters, <<",">>)
            query_specs == build_grid_query_specs(timestamp, params, coords_str,
                                                  optionals, <<"csv">>)
        IN  \E u \in UrlAndTransport(query_specs, CsvBodies) :
              Called("query_grid_unpivoted",
                     [timestamp |-> timestamp, parameters |-> parameters,
                      bbox |-> bbox, optionals |-> optionals],
                     "unused", NoFs, query_specs, u,
                     Dispatch(query_specs, u,
                              DfOutcome(parse_response_to_df(u.transport))))

query_grid_unpivoted_time_series ==
    /\ Idle
    /\ \E time_series \in FacadeTimeSeries, parameters \in FacadeParams,
          optionals \in FacadeOptionals, flavour \in ChronoFlavours :
        LET bbox == StGallen
            coords_str == BBoxDisplay(bbox)
            query_specs == build_ts_query_specs(time_series, parameters, coords_str,
                                                optionals, <<"csv">>, flavour)
        IN  \E u \in UrlAndTransport(query_specs, CsvBodies) :
              Called("query_grid_unpivoted_time_series",
                     [time_series |-> time_series, parameters |-> parameters,
                      bbox |-> bbox, optionals |-> optionals],
                     flavour, NoFs, query_specs, u,
                     Dispatch(query_specs, u,
                              DfOutcome(parse_response_to_df(u.transport))))


query_lightning ==
    /\ Idle
    /\ \E time_series \in FacadeTimeSeries, bbox \in BBoxes :
        LET coords_str == F64ToString(bbox.lat_max) \o <<",">>
                          \o F64ToString(bbox.lon_min) \o <<"_">>
                          \o F64ToString(bbox.lat_min) \o <<",">>
                          \o F64ToString(bbox.lon_max)
            query_specs == build_grid_ts_lightning_query_specs(time_series, coords_str)
        IN  \E u \in UrlAndTransport(query_specs, CsvBodies) :
              LET df == parse_response_to_df(u.transport)
                  df1 == rename(df.val, STROKE_TIME, VALIDDATE)
                  df2 == rename(df1.val, STROKE_LAT, LAT)
                  df3 == rename(df2.val, STROKE_LON, LON)
                  on_ok ==
                    IF df.kind # "Ok" THEN DfOutcome(df)
                    ELSE IF df1.kind # "Ok" THEN DfOutcome(df1)
                    ELSE IF df2.kind # "Ok" THEN DfOutcome(df2)
                    ELSE DfOutcome(df3)
              IN  Called("query_lightning",
                         [time_series |-> time_series, bbox |-> bbox],
                         "unused", NoFs, query_specs, u,
                         Dispatch(query_specs, u, on_ok))

query_user_features ==
    /\ Idle
    /\ LET query_specs == Text(<<"user_stats_json">>)
       IN  \E u \in UrlAndTransport(query_specs, JsonBodies) :
             LET user_stats == extract_user_statistics(u.transport)
                 on_ok == Outcome(user_stats, 1, u.transport.readable, FALSE)
             IN  Called("query_user_features", [none |-> TRUE],
                        "unused", NoFs, query_specs, u,
                        Dispatch(query_specs, u, on_ok))

RouteParams == {<<T_2M>>, <<PRECIP, T_2M, PRECIP>>}
RouteDates ==
    { <<>>,
      <<DateTime(Noon17, 0)>>,
      <<DateTime(Noon17, 0), DateTime(Noon17 + 3600, 0)>> }

route_query_postal ==
    /\ Idle
    /\ \E dates \in RouteDates,
          pcodes \in PostalLists, params \in RouteParams :
        LET dates_str == Join([i \in 1..Len(dates) |-> to_rfc3339(dates[i])], <<",">>)
            points_str == Join(pcodes, <<"+">>)
            params_str == Join(params, <<",">>)
            query_specs == build_route_query_specs(dates_str, params_str, points_str)
        IN  \E u \in UrlAndTransport(query_specs, CsvBodies) :
              Called("route_query_postal",
                     [dates |-> dates, pcodes |-> pcodes, params |-> params],
                     "unused", NoFs, query_specs, u,
                     Dispatch(query_specs, u,
                              DfOutcome(parse_response_to_df(u.transport))))

route_query_points ==
    /\ Idle
    /\ \E dates \in RouteDates,
          points \in PointLists, params \in RouteParams :
        LET dates_str == Join([i \in 1..Len(dates) |-> to_rfc3339(dates[i])], <<",">>)
            points_str == Join([i \in 1..Len(points) |-> PointDisplay(points[i])], <<"+">>)
            params_str == Join(params, <<",">>)
            query_specs == build_route_query_specs(dates_str, params_str, points_str)
        IN  \E u \in UrlAndTransport(query_specs, CsvBodies) :
              Called("route_query_points",
                     [dates |-> dates, points |-> points, params |-> params],
                     "unused", NoFs, query_specs, u,
                     Dispatch(query_specs, u,
                              DfOutcome(parse_response_to_df(u.transport))))

\* the ways the file system can go for a call: the parent directory (is
\* there, is created, cannot be created) and, for a body that was read, the
\* write (File::create and io::copy succeed, or one of them fails)
MkdirOutcomes == {"exists", "created", "fails"}

\* a path without a parent (the empty path) has no directory to look at
MkdirOutcomesOf(file_name) ==
    IF Len(file_name) = 0 THEN {"no_parent"} ELSE MkdirOutcomes
WriteOutcomes(u) ==
    IF u.transport.kind = "response" /\ StatusIsOk(u.transport.status)
       /\ u.transport.readable
    THEN {"ok", "create_fails", "copy_fails"}
    ELSE {"unused"}

\* the file before the call: none when its directory is missing; else
\* none, or one written earlier (shorter or longer than the payloads)
OldFiles == {<<<<<<"O">>>>>>, <<<<<<"O">>>>, <<<<"L">>>>, <<<<"D">>>>>>}
BeforeOutcomes(mkdir) ==
    IF mkdir = "exists" THEN {None} \cup {Some(old) : old \in OldFiles}
    ELSE {None}

\* an Outcome that also says what the target file holds
Filed(out, file) ==
    [result |-> out.result, requests |-> out.requests, decoded |-> out.decoded,
     written |-> out.written, file |-> file]

\* what a copy that failed on its last chunk has left in the truncated file
Partial(body) == IF Len(body) = 0 THEN <<>> ELSE SubSeq(body, 1, Len(body) - 1)

\* write_file(response, file_name).await?; Ok(())
FileOutcome(response, fs) ==
    LET wrote == write_file(response, fs)
    IN  IF wrote.kind = "panic" THEN Outcome(Panic, 1, FALSE, FALSE)
        ELSE IF wrote.kind = "Err"
        THEN IF fs.write = "create_fails"
             THEN Outcome(wrote, 1, FALSE, FALSE)
             ELSE Filed(Outcome(wrote, 1, FALSE, TRUE), Some(Partial(response.body)))
        ELSE Filed(Outcome(Ok("unit"), 1, FALSE, TRUE), Some(wrote.val))

FileNames == {<<"tests", "/", "netcdfs", "/", "my_netcdf.nc">>, <<>>}

query_netcdf ==
    /\ Idle
    /\ \E time_series \in FacadeTimeSeries, optionals \in FacadeOptionals,
          file_name \in FileNames, flavour \in ChronoFlavours :
      \E mkdir \in MkdirOutcomesOf(file_name) : \E before \in BeforeOutcomes(mkdir) :
        LET parameter == T_2M
            bbox == StGallen
            made == create_path([mkdir |-> mkdir, write |-> "unused", before |-> before])
            coords_str == BBoxDisplay(bbox)
            query_specs == build_grid_ts_query_specs(time_series, parameter, coords_str,
                                                     <<"netcdf">>, optionals, flavour)
            a == [time_series |-> time_series, parameter |-> parameter,
                  bbox |-> bbox, file_name |-> file_name, optionals |-> optionals]
        IN  IF made.kind # "Ok"
            THEN Called("query_netcdf", a, flavour, [mkdir |-> mkdir, write |-> "unused", before |-> before],
                        [kind |-> "none"], [url |-> "unused", transport |-> NotAsked],
                        Outcome(made, 0, FALSE, FALSE))
            ELSE \E u \in UrlAndTransport(query_specs, Payloads) :
                   \E write \in WriteOutcomes(u) :
                     LET fs == [mkdir |-> mkdir, write |-> write, before |-> before]
                     IN  Called("query_netcdf", a, flavour, fs, query_specs, u,
                                Dispatch(query_specs, u, FileOutcome(u.transport, fs)))

query_grid_png ==
    /\ Idle
    /\ \E optionals \in FacadeOptionals, file_name \in FileNames :
      \E mkdir \in MkdirOutcomesOf(file_name) : \E before \in BeforeOutcomes(mkdir) :
        LET date == DateTime(Noon17, 0)
            parameter == T_2M
            bbox == StGallen
            made == create_path([mkdir |-> mkdir, write |-> "unused", before |-> before])
            coords_str == BBoxDisplay(bbox)
            query_specs == build_grid_query_specs(date, parameter, coords_str,
                                                  optionals, <<"png">>)
            a == [date |-> date, parameter |-> parameter,
                  bbox |-> bbox, file_name |-> file_name, optionals |-> optionals]
        IN  IF made.kind # "Ok"
            THEN Called("query_grid_png", a, "unused", [mkdir |-> mkdir, write |-> "unused", before |-> before],
                        [kind |-> "none"], [url |-> "unused", transport |-> NotAsked],
                        Outcome(made, 0, FALSE, FALSE))
            ELSE \E u \in UrlAndTransport(query_specs, Payloads) :
                   \E write \in WriteOutcomes(u) :
                     LET fs == [mkdir |-> mkdir, write |-> write, before |-> before]
                     IN  Called("query_grid_png", a, "unused", fs, query_specs, u,
                                Dispatch(query_specs, u, FileOutcome(u.transport, fs)))


(***************************************************************************)
(* query_grid_png_timeseries: a loop of query_grid_png calls, one per time *)
(* step, each `?`-propagated; the step is timedelta.unwrap(), evaluated    *)
(* after a call has returned Ok.                                           *)
(***************************************************************************)
\* a loop test that left the end out
DateTimeLess(a, b) == a.secs < b.secs \/ (a.secs = b.secs /\ a.nanos < b.nanos)

\* dt_cur <= time_series.end
DateTimeLeq(a, b) == a.secs < b.secs \/ (a.secs = b.secs /\ a.nanos <= b.nanos)

\* dt_cur + timedelta
DateTimePlus(dt, d) ==
    LET n == dt.nanos + d.nanos
    IN  IF n >= 1000000000 THEN DateTime(dt.secs + d.secs + 1, n - 1000000000)
        ELSE DateTime(dt.secs + d.secs, n)

\* dt_cur.format("%Y%m%d_%H%M%S")
FormatStamp(dt) ==
    LET day == (dt.secs \div 86400) + 1
        sod == dt.secs % 86400
    IN  <<"2", "0", "2", "2", "0", "5">> \o PadNat(day, 2) \o <<"_">>
        \o PadNat(sod \div 3600, 2) \o PadNat((sod % 3600) \div 60, 2)
        \o PadNat(sod % 60, 2)

\* format!("{}_{}.png", prefixpath, dt_cur.format(fmt))
PngFileName(prefixpath, dt_cur) ==
    prefixpath \o <<"_">> \o FormatStamp(dt_cur) \o <<".", "png">>

\* a loop that looked at the timedelta before its first call
LoopInstantsChecked(dt_cur, end, timedelta) ==
    IF ~timedelta.some THEN <<>> ELSE <<dt_cur>>

\* the instants the loop visits while every call returns Ok; with no
\* timedelta the unwrap() after the first call ends it
RECURSIVE LoopInstants(_, _, _)
LoopInstants(dt_cur, end, timedelta) ==
    IF ~DateTimeLeq(dt_cur, end) THEN <<>>
    ELSE IF ~timedelta.some THEN <<dt_cur>>
    ELSE <<dt_cur>> \o LoopInstants(DateTimePlus(dt_cur, timedelta.val), end, timedelta)

\* the body of query_grid_png under the surroundings e of one call
query_grid_png_call(date, parameter, bbox, optionals, e) ==
    LET made == create_path(e)
        query_specs == build_grid_query_specs(date, parameter, BBoxDisplay(bbox),
                                              optionals, <<"png">>)
    IN  IF made.kind # "Ok" THEN Outcome(made, 0, FALSE, FALSE)
        ELSE Dispatch(query_specs, e, FileOutcome(e.transport, e))

\* a loop that dropped the result of the call
PropagatedNever(out) == FALSE

\* `.await?` on the call: anything but Ok ends the loop and the method
Propagated(out) == out.result.kind # "Ok"

\* the surroundings of one call of the loop: two that let it return Ok,
\* and one for each way it can fail
Surroundings(mkdir, url, transport, write) ==
    [mkdir |-> mkdir, before |-> None, url |-> url, transport |-> transport,
     write |-> write]
Tile == <<<<<<"N">>>>>>
PngSteps ==
    {Surroundings("exists", "ok", Response(200, TRUE, Tile), "ok"),
     Surroundings("created", "ok", Response(200, TRUE, Tile), "ok"),
     Surroundings("fails", "unused", NotAsked, "unused"),
     Surroundings("exists", "rejected", NotAsked, "unused"),
     Surroundings("exists", "ok", TransportError, "unused"),
     Surroundings("exists", "ok", Response(403, TRUE, <<<<<<"forbidden">>>>>>), "unused"),
     Surroundings("exists", "ok", Response(200, FALSE, <<>>), "unused"),
     Surroundings("exists", "ok", Response(200, TRUE, Tile), "create_fails")}

\* a day in steps of 10 h, 12 h, 1 day, 2 days and without a step; an end
\* before the start
PngTimeSeries ==
    {TimeSeries(DateTime(Noon17, 0), DateTime(Noon17 + 86400, 0), timedelta) :
        timedelta \in {None, Some(Duration(36000, 0)), Some(Duration(43200, 0)),
                       Some(Duration(86400, 0)), Some(Duration(172800, 0))}}
    \cup {TimeSeries(DateTime(Noon17, 0), DateTime(Noon17 - 3600, 0),
                     Some(Duration(3600, 0)))}

Prefixes == {<<"tests", "/", "pngs", "/", "series">>}

query_grid_png_timeseries ==
    /\ Idle
    /\ \E time_series \in PngTimeSeries, optionals \in FacadeOptionals,
          prefixpath \in Prefixes :
        LET parameter == T_2M
            bbox == StGallen
            instants == LoopInstants(time_series.start, time_series.end,
                                     time_series.timedelta)
        IN  \E steps \in SeqsUpTo(PngSteps, Len(instants)) :
              LET n == Len(steps)
                  outs == [i \in 1..n |->
                              query_grid_png_call(instants[i], parameter, bbox,
                                                  optionals, steps[i])]
                  stopped == n > 0 /\ Propagated(outs[n])
              IN  \* `?`: the first call that does not return Ok ends the loop
                  /\ \A i \in 1..(n - 1) : ~Propagated(outs[i])
                  /\ n = Len(instants) \/ stopped
                  /\ op' = "query_grid_png_timeseries"
                  /\ args' = [time_series |-> time_series, parameter |-> parameter,
                              bbox |-> bbox, prefixpath |-> prefixpath,
                              optionals |-> optionals]
                  /\ env' = [NoEnv("unused") EXCEPT !.steps = steps]
                  /\ fragment' =
                        IF n > 0 /\ steps[n].mkdir # "fails"
                        THEN build_grid_query_specs(instants[n], parameter,
                                                    BBoxDisplay(bbox), optionals,
                                                    <<"png">>).val
                        ELSE <<>>
                  /\ result' = IF stopped THEN outs[n].result
                               ELSE IF n > 0 /\ ~time_series.timedelta.some THEN Panic
                               ELSE Ok("unit")
                  /\ requests' = Cardinality({i \in 1..n : outs[i].requests = 1})
                  /\ decoded' = FALSE
                  /\ written' = \E i \in 1..n : outs[i].written
                  /\ disk' = [parents |-> IF n = 0 THEN "unused"
                                          ELSE ParentsAfter(steps[n]),
                              file |-> None,
                              files |-> [i \in 1..n |->
                                           [name |-> PngFileName(prefixpath, instants[i]),
                                            content |-> FileAfter(steps[i], outs[i])]]]
                  /\ UNCHANGED task_vars

\* APIClient::new(username, password, timeout_seconds)
APIClient_new(username, password, timeout_seconds) ==
    [username |-> username, password |-> password, timeout |-> timeout_seconds]

Clients == {APIClient_new(<<"nice">>, <<"try">>, 300),
            APIClient_new(<<"ferris_loves_rustaceans">>, <<"0123456789">>, 10)}

\* no call is running and none has run
NoCall ==
    /\ op = "none"
    /\ args = [none |-> TRUE]
    /\ env = NoEnv("unused")
    /\ fragment = <<>>
    /\ result = [kind |-> "none"]
    /\ requests = 0
    /\ decoded = FALSE
    /\ written = FALSE
    /\ disk = NoDisk

NoShared == [dir |-> FALSE, file |-> None]
NoLoop == [pc |-> "none"]

\* ResponseBody::new(): three empty vectors
ResponseBody_new ==
    [response_headers |-> <<>>, response_records |-> <<>>, response_indexes |-> <<>>]
NoLegacy == [op |-> "none"]

Init ==
    /\ NoCall
    /\ client = APIClient_new(<<"nice">>, <<"try">>, 300)
    /\ tasks = <<>>
    /\ shared = NoShared
    /\ finished = <<>>
    /\ loop = NoLoop
    /\ response_body = ResponseBody_new
    /\ legacy = NoLegacy

\* the caller drops what the call gave back; nothing of a call is kept
Return ==
    /\ op # "none"
    /\ op' = "none"
    /\ args' = [none |-> TRUE]
    /\ env' = NoEnv("unused")
    /\ fragment' = <<>>
    /\ result' = [kind |-> "none"]
    /\ requests' = 0
    /\ decoded' = FALSE
    /\ written' = FALSE
    /\ disk' = NoDisk
    /\ UNCHANGED task_vars

Next ==
    \/ Return
    \/ BuildTs
    \/ BuildGrid
    \/ BuildGridTs
    \/ BuildLightning
    \/ BuildRoute
    \/ FormatBBox
    \/ PointsToStr
    \/ query_time_series
    \/ query_time_series_postal
    \/ query_grid_pivoted
    \/ query_grid_unpivoted
    \/ query_grid_unpivoted_time_series
    \/ query_lightning
    \/ query_user_features
    \/ route_query_postal
    \/ route_query_points
    \/ query_netcdf
    \/ query_grid_png
    \/ query_grid_png_timeseries

Spec == Init /\ [][Next]_vars


(***************************************************************************)
(* Calls running concurrently on one client (examples/13_parallel.rs: the  *)
(* calls are tokio::spawn-ed on the multi-threaded runtime, so they run in *)
(* parallel).  Each task runs query_netcdf or query_grid_png step by step; *)
(* all target the same file_name.  File::create and every write of         *)
(* io::copy are separate system calls on the task's own file handle, which *)
(* keeps its own offset.                                                   *)
(***************************************************************************)
Tasks == {1, 2}

BASE_URL == <<"https", ":", "/", "/", "api.meteomatics.com">>

\* base_url.join(url_fragment) when the join succeeds
build_url(url_fragment) == BASE_URL \o <<"/">> \o url_fragment

\* a do_http_get that sent no credentials
do_http_get_anonymous(c, full_url) ==
    [url |-> full_url, username |-> <<>>, password |-> <<>>, timeout |-> c.timeout]

\* self.http_client.get(full_url).basic_auth(&self.username, Some(password)).send()
do_http_get(c, full_url) ==
    [url |-> full_url, username |-> c.username, password |-> c.password,
     timeout |-> c.timeout]

NoRequest == [url |-> <<>>, username |-> <<>>, password |-> <<>>, timeout |-> 0]

\* the calls of the tasks: a PNG of noon, a PNG of one o'clock, a NetCDF
\* of the day (query_grid_png reads only the start)
TaskCalls ==
    {[method |-> "query_grid_png",
      time_series |-> TimeSeries(DateTime(Noon17, 0), DateTime(Noon17, 0), None)],
     [method |-> "query_grid_png",
      time_series |-> TimeSeries(DateTime(Noon17 + 3600, 0),
                                 DateTime(Noon17 + 3600, 0), None)],
     [method |-> "query_netcdf",
      time_series |-> TimeSeries(DateTime(Noon17, 0), DateTime(Noon17 + 86400, 0),
                                 Some(Duration(3600, 0)))]}

\* the fragment the method builds from its own arguments
FragmentOf(call, flavour) ==
    IF call.method = "query_netcdf"
    THEN build_grid_ts_query_specs(call.time_series, T_2M, BBoxDisplay(StGallen),
                                   <<"netcdf">>, None, flavour).val
    ELSE build_grid_query_specs(call.time_series.start, T_2M, BBoxDisplay(StGallen),
                                None, <<"png">>).val

\* the bytes the server sends to each task, in chunks of one write of io::copy
TaskPayloads ==
    <<{<<"a1">>, <<"a1", "a2">>}, {<<"b1">>, <<"b1", "b2", "b3">>}>>

Task(pc, call, flavour, request, payload, pos, r) ==
    [pc |-> pc, call |-> call, flavour |-> flavour, request |-> request,
     payload |-> payload, pos |-> pos, result |-> r]

\* file.write(chunk) at the offset of the task's handle; a write beyond
\* the end of the file leaves a hole of zero bytes
RECURSIVE Zeros(_)
Zeros(n) == IF n <= 0 THEN <<>> ELSE <<"0x00">> \o Zeros(n - 1)
WriteAt(content, pos, chunk) ==
    IF pos < Len(content)
    THEN [content EXCEPT ![pos + 1] = chunk]
    ELSE content \o Zeros(pos - Len(content)) \o <<chunk>>

InitParallel ==
    /\ NoCall
    /\ client \in Clients
    /\ \E flavour \in ChronoFlavours :
          tasks \in [Tasks -> {Task("called", call, flavour, NoRequest, <<>>, 0,
                                    [kind |-> "none"]) : call \in TaskCalls}]
    /\ shared = NoShared
    /\ finished = <<>>
    /\ loop = NoLoop
    /\ response_body = ResponseBody_new
    /\ legacy = NoLegacy

\* create_path(file_name).await?
TaskCreatePath ==
    \E t \in Tasks :
        /\ tasks[t].pc = "called"
        /\ tasks' = [tasks EXCEPT ![t].pc = "ready"]
        /\ shared' = [shared EXCEPT !.dir = TRUE]
        /\ UNCHANGED <<client, finished>>
        /\ UNCHANGED <<call_vars, loop, legacy_vars>>

\* the fragment, build_url and do_http_get up to send()
TaskSend ==
    \E t \in Tasks :
        /\ tasks[t].pc = "ready"
        /\ tasks' = [tasks EXCEPT
                        ![t].pc = "sent",
                        ![t].request =
                            do_http_get(client,
                                        build_url(FragmentOf(tasks[t].call,
                                                             tasks[t].flavour)))]
        /\ UNCHANGED <<client, shared, finished>>
        /\ UNCHANGED <<call_vars, loop, legacy_vars>>

\* the 200 response and its body (bytes().await)
TaskReceive ==
    \E t \in Tasks :
        /\ tasks[t].pc = "sent"
        /\ \E payload \in TaskPayloads[t] :
              tasks' = [tasks EXCEPT ![t].pc = "received", ![t].payload = payload]
        /\ UNCHANGED <<client, shared, finished>>
        /\ UNCHANGED <<call_vars, loop, legacy_vars>>

\* the request failed in the transport: Err(ReqwestError)
TaskFail ==
    \E t \in Tasks :
        /\ tasks[t].pc = "sent"
        /\ tasks' = [tasks EXCEPT ![t].pc = "done", ![t].result = Err(ReqwestError)]
        /\ UNCHANGED <<client, shared, finished>>
        /\ UNCHANGED <<call_vars, loop, legacy_vars>>

\* File::create(file_name)?: the file is made or truncated
TaskFileCreate ==
    \E t \in Tasks :
        /\ tasks[t].pc = "received"
        /\ tasks' = [tasks EXCEPT ![t].pc = "copying", ![t].pos = 0]
        /\ shared' = [shared EXCEPT !.file = Some(<<>>)]
        /\ UNCHANGED <<client, finished>>
        /\ UNCHANGED <<call_vars, loop, legacy_vars>>

\* one write of io::copy; after the last one write_file returns Ok
TaskCopy ==
    \E t \in Tasks :
        LET task == tasks[t]
            last == task.pos + 1 = Len(task.payload)
        IN  /\ task.pc = "copying"
            /\ task.pos < Len(task.payload)
            /\ shared' = [shared EXCEPT
                             !.file = Some(WriteAt(shared.file.val, task.pos,
                                                   task.payload[task.pos + 1]))]
            /\ tasks' = [tasks EXCEPT
                            ![t].pos = task.pos + 1,
                            ![t].pc = IF last THEN "done" ELSE "copying",
                            ![t].result = IF last THEN Ok("unit") ELSE task.result]
            /\ finished' = IF last THEN Append(finished, t) ELSE finished
            /\ UNCHANGED client
            /\ UNCHANGED <<call_vars, loop, legacy_vars>>

NextParallel ==
    \/ TaskCreatePath
    \/ TaskSend
    \/ TaskReceive
    \/ TaskFail
    \/ TaskFileCreate
    \/ TaskCopy

SpecParallel == InitParallel /\ [][NextParallel]_vars


(***************************************************************************)
(* query_grid_png_timeseries step by step: the test of the while loop, the *)
(* awaited call, the addition of the timedelta.  A call whose timedelta is *)
(* not positive never leaves the loop by its test; the model follows it    *)
(* for MaxRequests requests.                                               *)
(***************************************************************************)
MaxRequests == 4

\* an addition that took the magnitude of the step
LoopAdvanceMagnitude(dt, d) ==
    IF d.secs < 0 THEN DateTime(dt.secs - d.secs, dt.nanos)
    ELSE DateTimePlus(dt, d)

\* dt_cur + timedelta in the loop
LoopAdvance(dt, d) == DateTimePlus(dt, d)

\* the series of PngTimeSeries; a day in steps of zero, an hour in steps
\* of minus one hour, a second in steps of half a second
SeriesInputs ==
    PngTimeSeries
    \cup {TimeSeries(DateTime(Noon17, 0), DateTime(Noon17 + 86400, 0),
                     Some(Duration(0, 0))),
          TimeSeries(DateTime(Noon17, 0), DateTime(Noon17 + 3600, 0),
                     Some(Duration(0 - 3600, 0))),
          TimeSeries(DateTime(Noon17, 0), DateTime(Noon17 + 1, 0),
                     Some(Duration(0, 500000000)))}

Loop(pc, time_series, optionals, dt_cur, sent, files, r) ==
    [pc |-> pc, time_series |-> time_series, optionals |-> optionals,
     dt_cur |-> dt_cur, requests |-> sent, files |-> files, result |-> r]

InitSeries ==
    /\ NoCall
    /\ client = APIClient_new(<<"nice">>, <<"try">>, 300)
    /\ tasks = <<>>
    /\ shared = NoShared
    /\ finished = <<>>
    /\ \E time_series \in SeriesInputs, optionals \in FacadeOptionals :
          loop = Loop("test", time_series, optionals, time_series.start, 0, <<>>,
                      [kind |-> "none"])
    /\ response_body = ResponseBody_new
    /\ legacy = NoLegacy

\* while dt_cur <= time_series.end { .. }; Ok(())
SeriesTest ==
    /\ loop.pc = "test"
    /\ loop' = IF DateTimeLeq(loop.dt_cur, loop.time_series.end)
               THEN [loop EXCEPT !.pc = "call"]
               ELSE [loop EXCEPT !.pc = "returned", !.result = Ok("unit")]
    /\ UNCHANGED <<call_vars, client, tasks, shared, finished, legacy_vars>>

\* self.query_grid_png(&dt_cur, parameter, bbox, &cur_file_name, optionals).await?
SeriesCallPng ==
    /\ loop.pc = "call"
    /\ loop.requests < MaxRequests
    /\ \E e \in PngSteps :
          LET out == query_grid_png_call(loop.dt_cur, T_2M, StGallen,
                                         loop.optionals, e)
              sent == loop.requests + out.requests
          IN  loop' = IF Propagated(out)
                      THEN [loop EXCEPT !.pc = IF out.result.kind = "panic"
                                               THEN "aborted" ELSE "returned",
                                        !.requests = sent,
                                        !.result = out.result]
                      ELSE [loop EXCEPT !.pc = "add",
                                        !.requests = sent,
                                        !.files = Append(loop.files, loop.dt_cur)]
    /\ UNCHANGED <<call_vars, client, tasks, shared, finished, legacy_vars>>

\* dt_cur = dt_cur + time_series.timedelta.unwrap()
SeriesAdd ==
    /\ loop.pc = "add"
    /\ loop' = IF ~loop.time_series.timedelta.some
               THEN [loop EXCEPT !.pc = "aborted", !.result = Panic]
               ELSE [loop EXCEPT !.pc = "test",
                                 !.dt_cur = LoopAdvance(loop.dt_cur,
                                                        loop.time_series.timedelta.val)]
    /\ UNCHANGED <<call_vars, client, tasks, shared, finished, legacy_vars>>

NextSeries ==
    \/ SeriesTest
    \/ SeriesCallPng
    \/ SeriesAdd

\* the runtime keeps polling the future of the call, and every request is
\* answered or fails within the client's timeout
SpecSeries == InitSeries /\ [][NextSeries]_vars /\ WF_vars(NextSeries)


(***************************************************************************)
(* Properties.                                                             *)
(***************************************************************************)
FacadeOps ==
    {"query_time_series", "query_time_series_postal", "query_grid_pivoted",
     "query_grid_unpivoted", "query_grid_unpivoted_time_series",
     "query_lightning", "query_user_features", "route_query_postal",
     "route_query_points", "query_netcdf", "query_grid_png"}

GotResponse == op \in FacadeOps /\ env.transport.kind = "response"
Got200 == GotResponse /\ env.transport.status = 200 /\ env.transport.readable

\* the table a CSV text of a header line and data lines stands for
TableOf(header, lines) ==
    [j \in 1..Len(header) |->
        [name |-> header[j],
         values |-> [i \in 1..Len(lines) |-> [utf8 |-> lines[i][j]]]]]
Tail2(body) == SubSeq(body, 2, Len(body))
\* a body that is a header line and lines of the header's width
WellFormed(body) ==
    /\ Len(body) >= 1
    /\ \A i \in 2..Len(body) : Len(body[i]) = Len(body[1])
ConstantColumn(name, value, n) == [name |-> name, values |-> [i \in 1..n |-> value]]

\* C1: a facade call whose response has a status other than 200 gives no
\* Ok, decodes nothing and writes no file; with the body text received it
\* returns HttpError carrying that status and that body text.
C1_HttpErrorOnNon200 ==
    (GotResponse /\ env.transport.status # 200) =>
        /\ result.kind # "Ok"
        /\ ~decoded
        /\ ~written
        /\ requests = 1
        /\ env.transport.readable =>
              /\ result.kind = "Err"
              /\ result.err.variant = "HttpError"
              /\ result.err.status = env.transport.status
              /\ result.err.body = env.transport.body

\* a 204 with a CSV body answered to a file-writing call
C1_Witness ==
    /\ op = "query_netcdf"
    /\ GotResponse
    /\ env.transport.status = 204
    /\ env.transport.readable
    /\ Len(env.transport.body) = 2
    /\ result.kind = "Err"
    /\ result.err.variant = "HttpError"

\* C2: query_time_series with one Point and a 200 CSV body of n data rows
\* returns lat, lon (n cells each, the request's Point) and then the parsed
\* columns in their order; with 0 or 2 and more Points it returns the
\* parsed table as it is.
C2_LatLonPrepended ==
    (op = "query_time_series" /\ Got200 /\ WellFormed(env.transport.body)) =>
        LET body == env.transport.body
            parsed == TableOf(body[1], Tail2(body))
            n == Len(body) - 1
            point == args.coordinates[1]
        IN  IF Len(args.coordinates) = 1
            THEN /\ result.kind = "Ok" =>
                      result.val = <<ConstantColumn(LAT, [f64 |-> point.lat], n),
                                     ConstantColumn(LON, [f64 |-> point.lon], n)>>
                                   \o parsed
                 /\ (\A j \in 1..Len(body[1]) : body[1][j] \notin {LAT, LON})
                      => result.kind = "Ok"
            ELSE result = [kind |-> "Ok", val |-> parsed]

C2_Witness ==
    /\ op = "query_time_series"
    /\ Got200
    /\ Len(args.coordinates) = 1
    /\ Len(env.transport.body) = 3
    /\ env.transport.body[1] = <<VALIDDATE, T_2M>>
    /\ result.kind = "Ok"
    /\ Len(result.val) = 4

\* two Points: the parsed table comes back with its own lat and lon
C2_WitnessTwoPoints ==
    /\ op = "query_time_series"
    /\ Got200
    /\ Len(args.coordinates) = 2
    /\ Len(env.transport.body) = 3
    /\ env.transport.body[1] = <<LAT, LON, VALIDDATE, T_2M>>
    /\ result.kind = "Ok"
    /\ Len(result.val) = 4

\* C3: query_time_series_postal with one postal code and a 200 CSV body of
\* n data rows returns station_id (n cells, the postal string) and then the
\* parsed columns in their order; with any other number of postal codes it
\* returns the parsed table as it is.
C3_StationIdPrepended ==
    (op = "query_time_series_postal" /\ Got200 /\ WellFormed(env.transport.body)) =>
        LET body == env.transport.body
            parsed == TableOf(body[1], Tail2(body))
            n == Len(body) - 1
        IN  IF Len(args.postals) = 1
            THEN /\ result.kind = "Ok" =>
                      result.val = <<ConstantColumn(STATION_ID,
                                                    [utf8 |-> args.postals[1]], n)>>
                                   \o parsed
                 /\ (\A j \in 1..Len(body[1]) : body[1][j] # STATION_ID)
                      => result.kind = "Ok"
            ELSE result = [kind |-> "Ok", val |-> parsed]

C3_Witness ==
    /\ op = "query_time_series_postal"
    /\ Got200
    /\ Len(args.postals) = 1
    /\ Len(env.transport.body) = 3
    /\ env.transport.body[1] = <<VALIDDATE, T_2M>>
    /\ result.kind = "Ok"
    /\ Len(result.val) = 3


GenericBuilders ==
    {"build_ts_query_specs", "build_grid_query_specs", "build_grid_ts_query_specs"}
Builders ==
    GenericBuilders \cup {"build_grid_ts_lightning_query_specs", "build_route_query_specs"}

\* C4: a generic-shape builder returns a fragment without '?' when the
\* optionals are absent or an empty list, and otherwise a fragment that
\* ends with '?' and the entries joined by '&', with no '?' before it.
C4_NoQuestionMarkWithoutOptionals ==
    (op \in GenericBuilders /\ result.kind = "text") =>
        IF ~args.optionals.some \/ args.optionals.val = <<>>
        THEN \A i \in 1..Len(fragment) : fragment[i] # "?"
        ELSE LET suffix == <<"?">> \o Join(args.optionals.val, <<"&">>)
                 k == Len(fragment) - Len(suffix)
             IN  /\ k >= 0
                 /\ SubSeq(fragment, k + 1, Len(fragment)) = suffix
                 /\ \A i \in 1..k : fragment[i] # "?"

TidyOps ==
    {"query_grid_unpivoted", "query_grid_unpivoted_time_series",
     "route_query_postal", "route_query_points"}
ExtendingOps ==
    {"query_time_series", "query_time_series_postal", "query_lightning"}
Values(table) == [j \in 1..Len(table) |-> table[j].values]
LastColumns(table, k) == SubSeq(table, Len(table) - k + 1, Len(table))

\* C5: query_grid_pivoted takes the third line of a 200 body as the header
\* and the lines after it as the rows; every other CSV method takes the
\* first line as the header and all the lines after it as the rows.
C5_SkipRows ==
    LET body == env.transport.body
    IN  /\ (op = "query_grid_pivoted" /\ Got200) =>
              /\ Len(body) < 3 => result.kind = "Err"
              /\ (Len(body) >= 3 /\ WellFormed(SubSeq(body, 3, Len(body)))) =>
                    result = [kind |-> "Ok",
                              val |-> TableOf(body[3], SubSeq(body, 4, Len(body)))]
        /\ (op \in TidyOps /\ Got200 /\ WellFormed(body)) =>
              result = [kind |-> "Ok", val |-> TableOf(body[1], Tail2(body))]
        /\ (op \in ExtendingOps /\ Got200 /\ WellFormed(body) /\ result.kind = "Ok") =>
              /\ Len(result.val) >= Len(body[1])
              /\ Values(LastColumns(result.val, Len(body[1])))
                   = Values(TableOf(body[1], Tail2(body)))

\* two lines before the header, two rows after it
C5_Witness ==
    /\ op = "query_grid_pivoted"
    /\ Got200
    /\ Len(env.transport.body) = 5
    /\ env.transport.body[3] = <<<<"data">>, <<"9.369">>, <<"9.37">>>>
    /\ result.kind = "Ok"
    /\ Len(result.val) = 3
    /\ Len(result.val[1].values) = 2

\* a tidy method called with two parameters
C5_WitnessTidy ==
    /\ op = "query_grid_unpivoted"
    /\ Got200
    /\ Len(args.parameters) = 2
    /\ Len(env.transport.body) = 3
    /\ result.kind = "Ok"
    /\ Len(result.val[1].values) = 2

LightningName(name) ==
    CASE name = STROKE_TIME -> VALIDDATE
      [] name = STROKE_LAT -> LAT
      [] name = STROKE_LON -> LON
      [] OTHER -> name

\* C6: the table query_lightning returns on a 200 body is the parsed table
\* with stroke_time:sql, stroke_lat:d and stroke_lon:d named validdate, lat
\* and lon, wherever they stand; every other column keeps name, place and
\* values; and a body carrying the three stroke columns (and none of the
\* new names) does give a table.
C6_LightningRenames ==
    (op = "query_lightning" /\ Got200 /\ WellFormed(env.transport.body)) =>
        LET body == env.transport.body
            header == body[1]
            names == {header[j] : j \in 1..Len(header)}
            renamed == [j \in 1..Len(header) |-> LightningName(header[j])]
        IN  /\ result.kind = "Ok" =>
                 /\ result.val = TableOf(renamed, Tail2(body))
                 /\ \A name \in {VALIDDATE, LAT, LON} :
                       \E j \in 1..Len(result.val) : result.val[j].name = name
                 /\ \A j \in 1..Len(result.val) :
                       result.val[j].name \notin {STROKE_TIME, STROKE_LAT, STROKE_LON}
            /\ ({STROKE_TIME, STROKE_LAT, STROKE_LON} \subseteq names
                  /\ names \cap {VALIDDATE, LAT, LON} = {})
                 => result.kind = "Ok"

\* the stroke columns not in the order time, lat, lon
C6_Witness ==
    /\ op = "query_lightning"
    /\ Got200
    /\ Len(env.transport.body) = 3
    /\ env.transport.body[1] = <<STROKE_CURRENT, STROKE_LON, STROKE_TIME, STROKE_LAT>>
    /\ result.kind = "Ok"
    /\ result.val[3].name = VALIDDATE
    /\ result.val[1].name = STROKE_CURRENT

CsvOps == TidyOps \cup ExtendingOps \cup {"query_grid_pivoted"}

\* a 200 body the method cannot decode: no JSON of the statistics shape,
\* no header line, or a line with more fields than the header
Undecodable ==
    LET body == env.transport.body
        skip == IF op = "query_grid_pivoted" THEN 2 ELSE 0
    IN  \/ op = "query_user_features" /\ ~JsonMatches(body)
        \/ /\ op \in CsvOps
           /\ \/ Len(body) <= skip
              \/ \E i \in (skip + 2)..Len(body) : Len(body[i]) > Len(body[skip + 1])

\* C7: a 200 response whose body cannot be decoded gives an error that is
\* neither the HTTP-error variant nor the transport-failure variant.
C7_DecodeErrorVariant ==
    (Got200 /\ Undecodable) =>
        /\ result.kind = "Err"
        /\ result.err.variant \notin {"HttpError", "ReqwestError"}

\* C8: a facade call that got a response ends by returning Ok or Err, also
\* when reading the body fails; it never aborts.
C8_NoAbortAfterResponse ==
    GotResponse => result.kind \in {"Ok", "Err"}

\* C9: every builder returns a fragment, for every input of its argument
\* types; none aborts.
C9_BuildersNeverFail ==
    op \in Builders => result.kind = "text"

\* C10: a step of a whole number of seconds is written PT{total_seconds}S
\* after the end instant, whatever its length.
C10_StepInTotalSeconds ==
    (op \in {"build_ts_query_specs", "build_grid_ts_query_specs"}
       /\ args.time_series.timedelta.some
       /\ args.time_series.timedelta.val.nanos = 0
       /\ args.time_series.timedelta.val.secs > 0) =>
        LET ts == args.time_series
            step == <<"P", "T">> \o NatToStr(ts.timedelta.val.secs) \o <<"S">>
            k == Len(to_rfc3339(ts.start)) + 2 + Len(to_rfc3339(ts.end)) + 1
        IN  /\ result.kind = "text"
            /\ Len(fragment) > k + Len(step)
            /\ fragment[k] = ":"
            /\ SubSeq(fragment, k + 1, k + Len(step)) = step
            /\ fragment[k + Len(step) + 1] = "/"


(***************************************************************************)
(* Reading an instant back from a fragment.                                *)
(***************************************************************************)
DigitValue(c) == CHOOSE d \in 0..9 : Digits[d + 1] = c
IsDigit(c) == \E d \in 0..9 : Digits[d + 1] = c
TwoDigits(text, p) == 10 * DigitValue(text[p]) + DigitValue(text[p + 1])
RECURSIVE Pow10(_)
Pow10(k) == IF k = 0 THEN 1 ELSE 10 * Pow10(k - 1)
RECURSIVE DigitsValue(_)
DigitsValue(ds) ==
    IF Len(ds) = 0 THEN 0
    ELSE 10 * DigitsValue(SubSeq(ds, 1, Len(ds) - 1)) + DigitValue(ds[Len(ds)])
\* the digits after the '.' at place q, up to the '+' of the offset
FractionDigitsAt(text, q) ==
    IF text[q] # "." THEN <<>>
    ELSE LET k == CHOOSE n \in 1..9 :
                    /\ text[q + n + 1] = "+"
                    /\ \A i \in 1..n : IsDigit(text[q + i])
         IN  SubSeq(text, q + 1, q + k)
\* the instant written at place p of text, and the pieces it takes
InstantAt(text, p) ==
    LET frac == FractionDigitsAt(text, p + 19)
    IN  [secs |-> (TwoDigits(text, p + 8) - 1) * 86400 + TwoDigits(text, p + 11) * 3600
                  + TwoDigits(text, p + 14) * 60 + TwoDigits(text, p + 17),
         nanos |-> DigitsValue(frac) * Pow10(9 - Len(frac)),
         len |-> 19 + (IF Len(frac) = 0 THEN 0 ELSE Len(frac) + 1) + 6]
SameInstant(read, dt) == read.secs = dt.secs /\ read.nanos = dt.nanos

\* C11: the instants of a fragment read back as the instants given, to the
\* last sub-second digit: the start and the end of a TimeSeries (also in
\* the lightning fragment) and the timestamp of a grid query.
C11_InstantsReadBack ==
    /\ (op \in {"build_ts_query_specs", "build_grid_ts_query_specs",
                "build_grid_ts_lightning_query_specs"} /\ result.kind = "text") =>
          LET p == IF op = "build_grid_ts_lightning_query_specs" THEN 5 ELSE 1
              start == InstantAt(fragment, p)
              end == InstantAt(fragment, p + start.len + 2)
          IN  /\ SameInstant(start, args.time_series.start)
              /\ SubSeq(fragment, p + start.len, p + start.len + 1) = <<"-", "-">>
              /\ SameInstant(end, args.time_series.end)
    /\ (op = "build_grid_query_specs" /\ result.kind = "text") =>
          SameInstant(InstantAt(fragment, 1), args.timestamp)

\* a nanosecond start and a seconds-only start with a nanosecond end
C11_Witness ==
    /\ op = "build_ts_query_specs"
    /\ result.kind = "text"
    /\ args.time_series.start.nanos = 0
    /\ args.time_series.end.nanos = 1
    /\ SubSeq(fragment, 26, 27) = <<"-", "-">>
    /\ SubSeq(fragment, 47, 56) = <<".", "0", "0", "0", "0", "0", "0", "0", "0", "1">>


\* the pieces of text between the separators, and the separators met
RECURSIVE SplitOn(_, _)
SplitOn(text, seps) ==
    IF \A i \in 1..Len(text) : text[i] \notin seps THEN <<text>>
    ELSE LET k == CHOOSE i \in 1..Len(text) :
                    /\ text[i] \in seps
                    /\ \A j \in 1..(i - 1) : text[j] \notin seps
         IN  <<SubSeq(text, 1, k - 1)>> \o SplitOn(SubSeq(text, k + 1, Len(text)), seps)
SeparatorsOf(text, seps) ==
    LET places == {i \in 1..Len(text) : text[i] \in seps}
        nth(n) == CHOOSE i \in places : Cardinality({j \in places : j <= i}) = n
    IN  [n \in 1..Cardinality(places) |-> text[nth(n)]]

\* C12: a BBox is written as lat_max , lon_min _ lat_min , lon_max : lat_res
\* , lon_res; the box of the whole globe at 5 degrees is 90,-180_-90,180:5,5.
C12_BBoxRendering ==
    (op = "BBox::fmt") =>
        LET b == args.bbox
        IN  /\ result.kind = "text"
            /\ SeparatorsOf(fragment, {",", "_", ":"}) = <<",", "_", ",", ":", ",">>
            /\ SplitOn(fragment, {",", "_", ":"})
                 = <<F64ToString(b.lat_max), F64ToString(b.lon_min),
                     F64ToString(b.lat_min), F64ToString(b.lon_max),
                     F64ToString(b.lat_res), F64ToString(b.lon_res)>>
            /\ (b.lat_min = 0 - 90000000 /\ b.lat_max = 90000000
                  /\ b.lon_min = 0 - 180000000 /\ b.lon_max = 180000000
                  /\ b.lat_res = 5000000 /\ b.lon_res = 5000000) =>
                 fragment = <<"9", "0", ",", "-", "1", "8", "0", "_", "-", "9", "0",
                              ",", "1", "8", "0", ":", "5", ",", "5">>

C12_Witness ==
    /\ op = "BBox::fmt"
    /\ args.bbox.lat_min = 0 - 90000000
    /\ args.bbox.lon_max = 180000000
    /\ Len(fragment) = 19

\* C14: points_to_str writes each point as lat , lon in list order with '+'
\* between points and nothing around them; a negative coordinate keeps its
\* '-'; the two points of the unit test give
\* 52.520551,13.461804+-52.520551,13.461804.
C14_PointsToStr ==
    (op = "points_to_str") =>
        LET coords == args.coords
            n == Len(coords)
            points == SplitOn(fragment, {"+"})
        IN  /\ result.kind = "text"
            /\ n = 0 => fragment = <<>>
            /\ n > 0 =>
                 /\ Len(points) = n
                 /\ \A i \in 1..n :
                       /\ SplitOn(points[i], {","})
                            = <<F64ToString(coords[i].lat), F64ToString(coords[i].lon)>>
                       /\ coords[i].lat < 0 => points[i][1] = "-"
            /\ coords = <<[lat |-> 52520551, lon |-> 13461804],
                          [lat |-> 0 - 52520551, lon |-> 13461804]>> =>
                 fragment = <<"5", "2", ".", "5", "2", "0", "5", "5", "1", ",",
                              "1", "3", ".", "4", "6", "1", "8", "0", "4", "+",
                              "-", "5", "2", ".", "5", "2", "0", "5", "5", "1", ",",
                              "1", "3", ".", "4", "6", "1", "8", "0", "4">>

C14_Witness ==
    /\ op = "points_to_str"
    /\ Len(args.coords) = 2
    /\ args.coords[2].lat < 0
    /\ args.coords[1].lat > 0
    /\ Len(fragment) = 40


GridOps ==
    {"query_grid_pivoted", "query_grid_unpivoted", "query_grid_unpivoted_time_series",
     "query_netcdf", "query_grid_png"}

\* the location text of a facade fragment: the third '/'-segment of the
\* generic shape, the value of bounding_box in the lightning shape
BoxTextOf(frag) ==
    IF op = "query_lightning"
    THEN LET box == SplitOn(frag, {"&"})[2]
         IN  SubSeq(box, 3, Len(box))
    ELSE SplitOn(frag, {"/"})[3]

CornersOf(b) ==
    <<F64ToString(b.lat_max), F64ToString(b.lon_min),
      F64ToString(b.lat_min), F64ToString(b.lon_max)>>
ResolutionOf(b) == <<F64ToString(b.lat_res), F64ToString(b.lon_res)>>

WithResolution(text, b) ==
    /\ SeparatorsOf(text, {",", "_", ":"}) = <<",", "_", ",", ":", ",">>
    /\ SplitOn(text, {",", "_", ":"}) = CornersOf(b) \o ResolutionOf(b)

\* C13 as stated: in the fragment of every facade method that takes a BBox,
\* lightning included, the box is lat_max,lon_min_lat_min,lon_max:lat_res,
\* lon_res.
C13_BoxWithResolutionEverywhere ==
    (op \in GridOps \cup {"query_lightning"} /\ Len(fragment) > 0) =>
        WithResolution(BoxTextOf(fragment), args.bbox)

\* C13 amended: the grid methods (pivoted, unpivoted, grid time series,
\* NetCDF, PNG) write the box as lat_max,lon_min_lat_min,lon_max:lat_res,
\* lon_res; query_lightning writes the two corners lat_max,lon_min_lat_min,
\* lon_max and no resolution.
C13_BoxInFragments ==
    /\ (op \in GridOps /\ Len(fragment) > 0) =>
          WithResolution(BoxTextOf(fragment), args.bbox)
    /\ (op = "query_lightning" /\ Len(fragment) > 0) =>
          LET text == BoxTextOf(fragment)
          IN  /\ SeparatorsOf(text, {",", "_", ":"}) = <<",", "_", ",">>
              /\ SplitOn(text, {",", "_", ":"}) = CornersOf(args.bbox)
    /\ (op \in GridOps \cup {"query_lightning"} /\ requests > 0) => Len(fragment) > 0

C13_Witness ==
    /\ op = "query_grid_pivoted"
    /\ requests = 1
    /\ args.bbox.lat_res = 500
    /\ Len(SplitOn(fragment, {"/"})) = 4

C13_WitnessLightning ==
    /\ op = "query_lightning"
    /\ requests = 1
    /\ args.bbox.lat_res = 500
    /\ Len(SplitOn(fragment, {"&"})) = 3


\* the identifiers of a list with ',' between neighbours
CommaSeparated(names) ==
    IF Len(names) = 0 THEN <<>>
    ELSE [i \in 1..(2 * Len(names) - 1) |->
            IF i % 2 = 1 THEN names[(i + 1) \div 2][1] ELSE ","]

\* C15: the parameter segment of a fragment built from a parameter list is
\* the identifiers in the caller's order with ',' between them, an
\* identifier given twice written twice.
C15_ParametersInOrder ==
    /\ (op \in {"build_ts_query_specs", "query_time_series", "query_time_series_postal",
                "query_grid_unpivoted", "query_grid_unpivoted_time_series"}
          /\ Len(fragment) > 0) =>
          SplitOn(fragment, {"/"})[2] = CommaSeparated(args.parameters)
    /\ (op \in {"route_query_postal", "route_query_points"} /\ Len(fragment) > 0) =>
          SplitOn(fragment, {"/"})[2] = CommaSeparated(args.params)

\* the same identifier twice, in a builder call and in a facade call
C15_Witness ==
    /\ op = "build_ts_query_specs"
    /\ args.parameters = <<T_2M, T_2M>>
    /\ result.kind = "text"
    /\ SplitOn(fragment, {"/"})[2] = <<"t_2m:C", ",", "t_2m:C">>

C15_WitnessFacade ==
    /\ op = "route_query_points"
    /\ args.params = <<PRECIP, T_2M, PRECIP>>
    /\ requests = 1
    /\ Len(SplitOn(fragment, {"/"})[2]) = 5


\* the segments of a list text, none for the empty text
ItemsOf(text, sep) == IF Len(text) = 0 THEN <<>> ELSE SplitOn(text, {sep})

\* C16: the route methods build {dates}/{params}/{locations}/csv?route=true:
\* the i-th date as RFC3339 in the i-th place between ',', the parameters
\* between ',', the i-th location in the i-th place between '+'; whatever
\* the lengths of the lists (equal or not) the fragment is built, and once
\* it is joined to the base URL the request is sent.
C16_RouteFragment ==
    (op \in {"route_query_postal", "route_query_points"}) =>
        LET segments == SplitOn(fragment, {"/"})
            dates == ItemsOf(segments[1], ",")
            locations == ItemsOf(segments[3], "+")
            given == IF op = "route_query_postal" THEN args.pcodes ELSE args.points
        IN  /\ Len(segments) = 4
            /\ Len(dates) = Len(args.dates)
            /\ \A i \in 1..Len(dates) :
                  /\ SameInstant(InstantAt(dates[i], 1), args.dates[i])
                  /\ InstantAt(dates[i], 1).len = Len(dates[i])
            /\ segments[2] = CommaSeparated(args.params)
            /\ Len(locations) = Len(given)
            /\ \A i \in 1..Len(locations) :
                  IF op = "route_query_postal" THEN locations[i] = given[i]
                  ELSE SplitOn(locations[i], {","})
                         = <<F64ToString(given[i].lat), F64ToString(given[i].lon)>>
            /\ segments[4] = <<"csv", "?", "route", "=", "true">>
            /\ env.url = "ok" => requests = 1

\* two dates and one location
C16_Witness ==
    /\ op = "route_query_points"
    /\ Len(args.dates) = 2
    /\ Len(args.points) = 1
    /\ requests = 1
    /\ result.kind = "Ok"


\* C17: the lightning fragment is get_lightning_list?time_range={start}--
\* {end}&bounding_box={box}&format=csv, made of the start, the end and the
\* box alone: it is built whatever the timedelta is, None included, and
\* nothing of the timedelta is in it.
C17_LightningFragment ==
    (op \in {"query_lightning", "build_grid_ts_lightning_query_specs"}) =>
        LET parts == SplitOn(fragment, {"&"})
            head == <<"get_lightning_list", "?", "time_range", "=">>
            start == InstantAt(parts[1], 5)
            end == InstantAt(parts[1], 5 + start.len + 2)
        IN  /\ Len(fragment) > 0
            /\ Len(parts) = 3
            /\ SubSeq(parts[1], 1, 4) = head
            /\ SameInstant(start, args.time_series.start)
            /\ SubSeq(parts[1], 5 + start.len, 6 + start.len) = <<"-", "-">>
            /\ SameInstant(end, args.time_series.end)
            /\ Len(parts[1]) = 4 + start.len + 2 + end.len
            /\ SubSeq(parts[2], 1, 2) = <<"bounding_box", "=">>
            /\ SubSeq(parts[2], 3, Len(parts[2]))
                 = (IF op = "query_lightning"
                    THEN F64ToString(args.bbox.lat_max) \o <<",">>
                         \o F64ToString(args.bbox.lon_min) \o <<"_">>
                         \o F64ToString(args.bbox.lat_min) \o <<",">>
                         \o F64ToString(args.bbox.lon_max)
                    ELSE args.coords_str)
            /\ parts[3] = <<"format", "=", "csv">>
            /\ (op = "query_lightning" /\ env.url = "ok") => requests = 1

\* a TimeSeries without timedelta, answered with a table
C17_Witness ==
    /\ op = "query_lightning"
    /\ ~args.time_series.timedelta.some
    /\ requests = 1
    /\ result.kind = "Ok"

AllFacadeOps == FacadeOps \cup {"query_grid_png_timeseries"}

\* the steps of a query_grid_png_timeseries call that reached the transport
StepsSent == {i \in 1..Len(env.steps) : env.steps[i].transport # NotAsked}

\* C18 as stated: every call of a facade method performs exactly one HTTP
\* GET, however the call ends.
C18_ExactlyOneGet ==
    (op \in AllFacadeOps) => requests = 1

\* C18, amended: a call of a facade method other than
\* query_grid_png_timeseries sends at most one GET: exactly one when it
\* reaches the transport, none when it ends before (no fragment was built,
\* the fragment was not joined to the base URL, the target directory could
\* not be created); a transport failure is returned as ReqwestError after
\* that one GET.  query_grid_png_timeseries sends one GET per time step that
\* reaches the transport, and ends at the first step that does not return
\* Ok.
C18_OneGetPerRequestSent ==
    /\ (op \in FacadeOps) =>
          /\ requests \in {0, 1}
          /\ (requests = 1) <=> (env.transport # NotAsked)
          /\ (requests = 0) <=>
                \/ Len(fragment) = 0
                \/ env.url = "rejected"
          /\ (env.mkdir = "fails") => (requests = 0 /\ result = Err(FileIOError))
          /\ (env.transport = TransportError) => result = Err(ReqwestError)
    /\ (op = "query_grid_png_timeseries") =>
          LET n == Len(env.steps)
          IN  /\ requests = Cardinality(StepsSent)
              /\ \A i \in 1..(n - 1) :
                    /\ i \in StepsSent
                    /\ env.steps[i].transport.kind = "response"
                    /\ env.steps[i].transport.status = 200
              /\ (n > 0 /\ env.steps[n].transport = TransportError) =>
                    result = Err(ReqwestError)
              /\ n <= Len(LoopInstants(args.time_series.start, args.time_series.end,
                                       args.time_series.timedelta))

\* a series of three steps has sent three GETs
C18_Witness ==
    /\ op = "query_grid_png_timeseries"
    /\ requests = 3
    /\ result = Ok("unit")

\* a transport failure came back after one GET
C18_WitnessNoRetry ==
    /\ op \in FacadeOps
    /\ env.transport = TransportError
    /\ requests = 1
    /\ result = Err(ReqwestError)

\* a series whose second step failed in the transport
C18_WitnessSeriesStopped ==
    /\ op = "query_grid_png_timeseries"
    /\ Len(env.steps) = 2
    /\ env.steps[2].transport = TransportError
    /\ requests = 2
    /\ result = Err(ReqwestError)
    /\ args.time_series.timedelta = Some(Duration(43200, 0))

\* C19: when the fragment cannot be joined to the base URL the method
\* returns ParseError; it sends no request for that fragment, decodes and
\* writes nothing, and does not abort.  In the loop of
\* query_grid_png_timeseries this holds of the step whose fragment is not
\* joined.
C19_ParseErrorOnRejectedUrl ==
    /\ (op \in FacadeOps /\ env.url = "rejected") =>
          /\ result = Err(ParseError)
          /\ requests = 0
          /\ env.transport = NotAsked
          /\ ~decoded
          /\ ~written
          /\ disk.file = env.before
    /\ (op = "query_grid_png_timeseries" /\ Len(env.steps) > 0
        /\ env.steps[Len(env.steps)].url = "rejected") =>
          /\ result = Err(ParseError)
          /\ Len(env.steps) \notin StepsSent
          /\ requests = Len(env.steps) - 1

C19_Witness ==
    /\ op \in FacadeOps
    /\ Len(fragment) > 0
    /\ env.url = "rejected"
    /\ result = Err(ParseError)
    /\ requests = 0

C19_WitnessSeries ==
    /\ op = "query_grid_png_timeseries"
    /\ Len(env.steps) = 2
    /\ env.steps[2].url = "rejected"
    /\ result = Err(ParseError)
    /\ requests = 1

FileOps == {"query_netcdf", "query_grid_png"}

\* C20: once query_netcdf or query_grid_png has returned Ok, the target file
\* holds exactly the payload of the response, whether or not a file (shorter
\* or longer) was there before, and its parent directories exist.
C20_FileHoldsPayload ==
    (op \in FileOps /\ result.kind = "Ok") =>
        /\ requests = 1
        /\ written
        /\ disk.parents = "exist"
        /\ disk.file = Some(env.transport.body)

\* a longer file was there and has been replaced by a payload
C20_Witness ==
    /\ op \in FileOps
    /\ result.kind = "Ok"
    /\ env.before.some
    /\ Len(env.transport.body) > 0
    /\ Len(env.before.val) > Len(env.transport.body)
    /\ disk.file = Some(env.transport.body)

\* the directories were missing and have been created
C20_WitnessCreated ==
    /\ op \in FileOps
    /\ result.kind = "Ok"
    /\ env.mkdir = "created"
    /\ disk.parents = "exist"
    /\ disk.file = Some(env.transport.body)

\* a shorter file was there
C20_WitnessShorter ==
    /\ op \in FileOps
    /\ result.kind = "Ok"
    /\ env.before.some
    /\ Len(env.before.val) < Len(env.transport.body)
    /\ disk.file = Some(env.transport.body)

\* the request of a query_netcdf / query_grid_png call failed: a transport
\* error or a status other than 200
RequestFailed ==
    /\ op \in FileOps
    /\ \/ env.transport = TransportError
       \/ env.transport.kind = "response" /\ env.transport.status # 200

\* C21: when the request of query_netcdf / query_grid_png ends in a
\* transport error or a non-200 status, no file has been created or
\* truncated at file_name and no parent directory has been created.
C21_NoFileSystemEffectOnFailure ==
    RequestFailed =>
        /\ ~written
        /\ disk.file = env.before
        /\ env.mkdir # "created"

\* the part of C21 about the file itself
C21_FileUntouchedOnFailure ==
    RequestFailed => (~written /\ disk.file = env.before)

\* C22: in query_netcdf and query_grid_png a failure to create the parent
\* directories is returned as FileIOError before any request is sent, and a
\* failure to create or to write the file after a 200 response is returned
\* as FileIOError instead of Ok.
C22_FileIOErrorOnFileSystemFailure ==
    (op \in FileOps) =>
        /\ (env.mkdir = "fails") =>
              /\ result = Err(FileIOError)
              /\ requests = 0
              /\ env.transport = NotAsked
              /\ Len(fragment) = 0
        /\ (env.write \in {"create_fails", "copy_fails"}) =>
              /\ env.transport.kind = "response"
              /\ env.transport.status = 200
              /\ requests = 1
              /\ result = Err(FileIOError)
        /\ (result = Err(FileIOError)) =>
              \/ env.mkdir = "fails"
              \/ env.write \in {"create_fails", "copy_fails"}

\* the parent directory could not be created
C22_Witness ==
    /\ op \in FileOps
    /\ env.mkdir = "fails"
    /\ result = Err(FileIOError)
    /\ requests = 0

\* the copy into the file failed after a 200 response
C22_WitnessWrite ==
    /\ op \in FileOps
    /\ env.write = "copy_fails"
    /\ env.transport.status = 200
    /\ result = Err(FileIOError)
    /\ requests = 1

\* both concurrent calls have returned Ok
BothSucceeded ==
    /\ Len(finished) = 2
    /\ \A t \in Tasks : tasks[t].pc = "done" /\ tasks[t].result = Ok("unit")

\* C23: when two file-producing calls that target the same path run
\* concurrently and both succeed, the file finally holds the complete
\* payload of the writer that finished last, never a mixture of both.
C23_LastWriterWins ==
    BothSucceeded => shared.file = Some(tasks[finished[2]].payload)

\* every request sent so far carries the client's credentials and timeout
\* and the URL of the call's own arguments, and equal calls sent equal
\* requests
HasSent(t) == tasks[t].pc \notin {"called", "ready"}
RequestsFromConfiguration ==
    /\ \A t \in DOMAIN tasks :
          HasSent(t) =>
            /\ tasks[t].request.username = client.username
            /\ tasks[t].request.password = client.password
            /\ tasks[t].request.timeout = client.timeout
            /\ tasks[t].request.url =
                  BASE_URL \o <<"/">> \o FragmentOf(tasks[t].call, tasks[t].flavour)
    /\ \A t, u \in DOMAIN tasks :
          (HasSent(t) /\ HasSent(u) /\ tasks[t].call = tasks[u].call) =>
            tasks[t].request = tasks[u].request

\* C24: no step of a call changes the client's configuration (username,
\* password, timeout; the base URL is a constant), also when the client is
\* shared by concurrent calls, and the request a call sends depends only on
\* that configuration and the call's own arguments.
C24_ConfigurationReadOnly ==
    [][client' = client /\ RequestsFromConfiguration']_vars

\* two concurrent calls with different arguments have both been sent and
\* have ended
C24_Witness ==
    /\ \A t \in Tasks : tasks[t].pc = "done"
    /\ tasks[1].call # tasks[2].call
    /\ tasks[1].request.url # tasks[2].request.url
    /\ tasks[1].request.username = client.username
    /\ tasks[2].request.username = client.username
    /\ client.timeout = 10

\* the seconds of the instant written as YYYYmmdd_HHMMSS at place p of text
StampAt(text, p) ==
    IF SubSeq(text, p, p + 5) # <<"2", "0", "2", "2", "0", "5">> \/ text[p + 8] # "_"
    THEN 0 - 1
    ELSE (TwoDigits(text, p + 6) - 1) * 86400 + TwoDigits(text, p + 9) * 3600
         + TwoDigits(text, p + 11) * 60 + TwoDigits(text, p + 13)

\* name is "{prefixpath}_{YYYYmmdd_HHMMSS of secs}.png"
IsPngNameOf(name, prefixpath, secs) ==
    LET k == Len(prefixpath)
    IN  /\ Len(name) = k + 1 + 15 + 2
        /\ SubSeq(name, 1, k) = prefixpath
        /\ name[k + 1] = "_"
        /\ StampAt(name, k + 2) = secs
        /\ SubSeq(name, k + 17, k + 18) = <<".", "png">>

SeriesCall == op = "query_grid_png_timeseries"
StartLeqEnd ==
    \/ args.time_series.start.secs < args.time_series.end.secs
    \/ /\ args.time_series.start.secs = args.time_series.end.secs
       /\ args.time_series.start.nanos <= args.time_series.end.nanos
PositiveStep ==
    /\ args.time_series.timedelta.some
    /\ \/ args.time_series.timedelta.val.secs > 0
       \/ /\ args.time_series.timedelta.val.secs = 0
          /\ args.time_series.timedelta.val.nanos > 0
AllStepsOk ==
    \A i \in 1..Len(env.steps) :
        /\ env.steps[i].transport.kind = "response"
        /\ env.steps[i].transport.status = 200
        /\ env.steps[i].transport.readable
        /\ env.steps[i].write = "ok"

\* C25: with start <= end, a positive timedelta of whole seconds and every
\* request succeeding, query_grid_png_timeseries performs
\* floor((end - start) / timedelta) + 1 calls, the k-th for start +
\* (k-1)*timedelta, in this order, the k-th writing
\* "{prefixpath}_{YYYYmmdd_HHMMSS}.png"; with start > end it performs no call
\* and returns Ok.
C25_OneCallPerTimestamp ==
    /\ (SeriesCall /\ StartLeqEnd /\ PositiveStep /\ result.kind = "Ok") =>
          LET ts == args.time_series
              count == ((ts.end.secs - ts.start.secs) \div ts.timedelta.val.secs) + 1
          IN  /\ AllStepsOk
              /\ Len(env.steps) = count
              /\ requests = count
              /\ Len(disk.files) = count
              /\ \A k \in 1..count :
                    /\ IsPngNameOf(disk.files[k].name, args.prefixpath,
                                   ts.start.secs + (k - 1) * ts.timedelta.val.secs)
                    /\ ts.start.secs + (k - 1) * ts.timedelta.val.secs <= ts.end.secs
                    /\ disk.files[k].content = Some(env.steps[k].transport.body)
    /\ (SeriesCall /\ StartLeqEnd /\ PositiveStep /\ AllStepsOk
        /\ Len(env.steps) > 0) => result.kind = "Ok"
    /\ (SeriesCall /\ ~StartLeqEnd) =>
          /\ result = Ok("unit")
          /\ requests = 0
          /\ Len(env.steps) = 0
          /\ disk.files = <<>>

\* a day in steps of 12 h: three calls, the last one for the end
C25_Witness ==
    /\ SeriesCall
    /\ args.time_series.timedelta = Some(Duration(43200, 0))
    /\ result = Ok("unit")
    /\ requests = 3
    /\ Len(disk.files) = 3
    /\ IsPngNameOf(disk.files[3].name, args.prefixpath, args.time_series.end.secs)

\* a day in steps of 10 h: three calls, the end is not reached
C25_WitnessEndNotReached ==
    /\ SeriesCall
    /\ args.time_series.timedelta = Some(Duration(36000, 0))
    /\ result = Ok("unit")
    /\ requests = 3

\* the end lies before the start
C25_WitnessNoCall ==
    /\ SeriesCall
    /\ ~StartLeqEnd
    /\ result = Ok("unit")
    /\ requests = 0

\* the last call of the loop returned an error
LastStepFailed ==
    /\ SeriesCall
    /\ Len(env.steps) > 0
    /\ LET e == env.steps[Len(env.steps)]
       IN  \/ e.mkdir = "fails"
           \/ e.url = "rejected"
           \/ e.transport = TransportError
           \/ e.transport.kind = "response" /\ e.transport.status # 200
                /\ e.transport.readable
           \/ e.write \in {"create_fails", "copy_fails"}

\* the error of a query_grid_png call under the surroundings e
ErrorOfStep(e) ==
    IF e.mkdir = "fails" THEN FileIOError
    ELSE IF e.url = "rejected" THEN ParseError
    ELSE IF e.transport = TransportError THEN ReqwestError
    ELSE IF e.transport.status # 200
    THEN HttpError(status_to_string(e.transport.status), e.transport.body,
                   e.transport.status)
    ELSE FileIOError

\* C26: query_grid_png_timeseries stops at the first failing timestamp: it
\* returns that call's error, sends no request for a later timestamp, and
\* the PNG files written for the earlier timestamps stay in place.
C26_StopsAtFirstFailure ==
    /\ LastStepFailed =>
          LET n == Len(env.steps)
          IN  /\ result = Err(ErrorOfStep(env.steps[n]))
              /\ requests <= n
              /\ requests = Cardinality(StepsSent)
              /\ Len(disk.files) = n
              /\ \A k \in 1..(n - 1) :
                    /\ env.steps[k].transport.kind = "response"
                    /\ env.steps[k].transport.status = 200
                    /\ disk.files[k].content = Some(env.steps[k].transport.body)
                    /\ IsPngNameOf(disk.files[k].name, args.prefixpath,
                                   args.time_series.start.secs
                                   + (k - 1) * args.time_series.timedelta.val.secs)
    /\ (SeriesCall /\ result.kind = "Ok") => AllStepsOk

\* the second of three timestamps failed with 403: one PNG is in place, two
\* requests were sent
C26_Witness ==
    /\ LastStepFailed
    /\ args.time_series.timedelta = Some(Duration(43200, 0))
    /\ Len(env.steps) = 2
    /\ env.steps[2].transport.kind = "response"
    /\ env.steps[2].transport.status = 403
    /\ result.kind = "Err"
    /\ requests = 2
    /\ disk.files[1].content = Some(Tile)

\* C28: with timedelta None and start <= end, query_grid_png_timeseries
\* first performs the call for the start timestamp (its PNG is written when
\* the call succeeds) and only then aborts on the missing timedelta; the
\* missing timedelta is not detected before the first request.
C28_AbortsAfterFirstRequest ==
    (SeriesCall /\ ~args.time_series.timedelta.some /\ StartLeqEnd) =>
        /\ Len(env.steps) = 1
        /\ Len(disk.files) = 1
        /\ IsPngNameOf(disk.files[1].name, args.prefixpath, args.time_series.start.secs)
        /\ requests = (IF env.steps[1].transport = NotAsked THEN 0 ELSE 1)
        /\ AllStepsOk =>
              /\ result = Panic
              /\ requests = 1
              /\ written
              /\ disk.files[1].content = Some(env.steps[1].transport.body)
        /\ LastStepFailed => result = Err(ErrorOfStep(env.steps[1]))
        /\ result.kind # "Ok"

C28_Witness ==
    /\ SeriesCall
    /\ ~args.time_series.timedelta.some
    /\ StartLeqEnd
    /\ result = Panic
    /\ requests = 1
    /\ disk.files[1].content = Some(Tile)
    /\ AllStepsOk

\* the step of the call followed step by step, in milliseconds
LoopStepMillis ==
    loop.time_series.timedelta.val.secs * 1000
    + (loop.time_series.timedelta.val.nanos \div 1000000)
LoopSpanMillis ==
    (loop.time_series.end.secs - loop.time_series.start.secs) * 1000
    + ((loop.time_series.end.nanos - loop.time_series.start.nanos) \div 1000000)
LoopPositive == loop.time_series.timedelta.some /\ LoopStepMillis > 0
LoopNotPositive == loop.time_series.timedelta.some /\ LoopStepMillis <= 0
LoopStartLeqEnd == DateTimeLeq(loop.time_series.start, loop.time_series.end)
LoopEnded == loop.pc \in {"returned", "aborted"}

\* C27: with a positive timedelta query_grid_png_timeseries returns after
\* finitely many requests (at most floor((end - start) / timedelta) + 1);
\* with a zero or negative timedelta and start <= end the current timestamp
\* never passes the end, and the call returns only when a request fails.
C27_ReturnsOnlyForPositiveStep ==
    /\ [](LoopPositive => <>LoopEnded)
    /\ []((LoopPositive /\ LoopStartLeqEnd) =>
            loop.requests <= (LoopSpanMillis \div LoopStepMillis) + 1)
    /\ []((LoopNotPositive /\ LoopStartLeqEnd) =>
            /\ DateTimeLeq(loop.dt_cur, loop.time_series.end)
            /\ LoopEnded => loop.result.kind # "Ok"
            /\ Len(loop.files) <= loop.requests)

\* a call with the zero timedelta has sent MaxRequests requests, all
\* answered with a PNG, and is about to send the next one
C27_Witness ==
    /\ loop.pc = "call"
    /\ loop.time_series.timedelta = Some(Duration(0, 0))
    /\ loop.requests = MaxRequests
    /\ Len(loop.files) = MaxRequests
    /\ loop.dt_cur = loop.time_series.start

\* a call with a step of 12 h has returned Ok after three requests
C27_WitnessReturned ==
    /\ loop.pc = "returned"
    /\ loop.time_series.timedelta = Some(Duration(43200, 0))
    /\ loop.result = Ok("unit")
    /\ loop.requests = 3

(***************************************************************************)
(* The first revision of the connector (src/src/entities,                  *)
(* src/src/configuration, src/src/connector_components): a ResponseBody    *)
(* filled from a csv reader, and query_time_series over a ValidDateTime.   *)
(* A csv reader is the sequence of the items rdr.records() yields, each    *)
(* Ok(record) or Err; a record is the sequence of its fields.              *)
(***************************************************************************)
MaxRecords == 2        \* items a csv reader yields
MaxBodyRows == 3       \* rows a ResponseBody holds
MaxHeaders == 2        \* headers a ResponseBody holds

CsvError == [variant |-> "csv::Error"]
LibraryError == [variant |-> "LibraryError"]
ApiError == [variant |-> "ApiError"]
GenericError == [variant |-> "GenericError"]

\* str::parse::<f64>() of a field written as [-]digits[.digits], in
\* millionths; None for a field that is no number
ParseF64(field) ==
    LET neg == Len(field) > 0 /\ field[1] = "-"
        rest == IF neg THEN Tail(field) ELSE field
        dots == {i \in 1..Len(rest) : rest[i] = "."}
        dot == IF dots = {} THEN Len(rest) + 1 ELSE CHOOSE i \in dots : TRUE
        whole == SubSeq(rest, 1, dot - 1)
        frac == SubSeq(rest, dot + 1, Len(rest))
    IN  IF /\ Cardinality(dots) <= 1
           /\ Len(whole) + Len(frac) > 0
           /\ Len(frac) <= 6
           /\ \A i \in 1..Len(rest) : i # dot => IsDigit(rest[i])
        THEN Some((IF neg THEN 0 - 1 ELSE 1)
                  * (DigitsValue(whole) * 1000000
                     + DigitsValue(frac) * Pow10(6 - Len(frac))))
        ELSE None

\* self.response_headers.push(header)
add_header(self, header) ==
    [self EXCEPT !.response_headers = Append(@, header)]

\* rdr.records(), every item taken: the header lines are records too
SkipNone(items, n) == items

\* Iterator::skip(n): the first n items are dropped, whatever they are
Skip(items, n) ==
    IF n >= Len(items) THEN <<>> ELSE SubSeq(items, n + 1, Len(items))

\* the body of the for loop for one record: its first field is the index,
\* the others are parsed and unwrapped
RowOf(record) ==
    [index |-> IF Len(record) = 0 THEN <<>> ELSE record[1],
     values |-> [n \in 1..(Len(record) - 1) |-> ParseF64(record[n + 1])]]

\* for record in .. { let record = record?; ..; push; push } Ok(())
RECURSIVE PopulateLoop(_, _)
PopulateLoop(self, items) ==
    IF Len(items) = 0 THEN [self |-> self, result |-> Ok("unit")]
    ELSE IF items[1].kind = "Err" THEN [self |-> self, result |-> items[1]]
    ELSE LET row == RowOf(items[1].val)
         IN  IF \E n \in 1..Len(row.values) : ~row.values[n].some
             THEN [self |-> self, result |-> Panic]
             ELSE PopulateLoop(
                    [self EXCEPT
                       !.response_records =
                          Append(@, [n \in 1..Len(row.values) |-> row.values[n].val]),
                       !.response_indexes = Append(@, row.index)],
                    Tail(items))

populate_records(self, rdr, header_num_elements) ==
    PopulateLoop(self, Skip(rdr, header_num_elements))

\* the readers: a header line, data lines of one and of two values, a line
\* whose value is no number, and an item the reader fails on
HeaderRecord == <<<<"v","a","l","i","d","d","a","t","e">>, <<"t","_","2","m">>>>
ReaderItems ==
    {Ok(HeaderRecord),
     Ok(<<<<"d","1">>, <<"1","2",".","5">>>>),
     Ok(<<<<"d","2">>, <<"-","3">>, <<"0",".","2","5">>>>),
     Ok(<<<<"d","3">>, <<"n","a","n","a">>>>),
     Err(CsvError)}
Readers == SeqsUpTo(ReaderItems, MaxRecords)
HeaderNames == {<<"validdate">>, T_2M}

LegacyCall(name, arguments, before, frag, sent, r) ==
    [op |-> name, args |-> arguments, before |-> before, fragment |-> frag,
     requests |-> sent, result |-> r]

InitLegacy ==
    /\ NoCall
    /\ client = APIClient_new(<<"nice">>, <<"try">>, 300)
    /\ tasks = <<>>
    /\ shared = NoShared
    /\ finished = <<>>
    /\ loop = NoLoop
    /\ response_body = ResponseBody_new
    /\ legacy = NoLegacy

\* one call at a time: the next one starts when the last has returned
LegacyIdle == legacy = NoLegacy

AddHeader ==
    /\ LegacyIdle
    /\ \E header \in HeaderNames :
        /\ Len(response_body.response_headers) < MaxHeaders
        /\ response_body' = add_header(response_body, header)
        /\ legacy' = LegacyCall("add_header", <<header>>, response_body, <<>>, 0,
                                Ok("unit"))
        /\ UNCHANGED <<call_vars, client, tasks, shared, finished, loop>>

PopulateRecords ==
    /\ LegacyIdle
    /\ \E rdr \in Readers, header_num_elements \in 0..MaxRecords :
        /\ Len(response_body.response_records) + Len(rdr) <= MaxBodyRows
        /\ LET out == populate_records(response_body, rdr, header_num_elements)
           IN  /\ response_body' = out.self
               /\ legacy' = LegacyCall("populate_records",
                                       <<rdr, header_num_elements>>, response_body,
                                       <<>>, 0, out.result)
        /\ UNCHANGED <<call_vars, client, tasks, shared, finished, loop>>

(***************************************************************************)
(* valid_date_time.rs and APIClient::query_time_series of the first        *)
(* revision.  A coordinate is a Vec<f32> kept in millionths.               *)
(***************************************************************************)
Days(n) == [unit |-> "D", n |-> n]
Hours(n) == [unit |-> "H", n |-> n]
I32ToString(n) == IF n < 0 THEN <<"-">> \o NatToStr(0 - n) ELSE NatToStr(n)
\* impl Display for PeriodDate: P{n}Y, P{n}M, P{n}D
PeriodDateDisplay(p) == <<"P">> \o I32ToString(p.n) \o <<p.unit>>
\* impl Display for PeriodTime: PT{n}H, PT{n}M, PT{n}S
PeriodTimeDisplay(p) == <<"PT">> \o I32ToString(p.n) \o <<p.unit>>

ValidDateTime(start_date_time, period_date, end_date_time, time_step) ==
    [start_date_time |-> start_date_time, period_date |-> period_date,
     end_date_time |-> end_date_time, time_step |-> time_step, time_list |-> None]

\* #[derive(Builder)]: start_date_time has no default, every other field
\* defaults to None; build() checks nothing else
ValidDateTimeBuilder_build(b) ==
    IF ~b.start_date_time.some THEN Err([variant |-> "UninitializedField"])
    ELSE Ok(ValidDateTime(b.start_date_time.val, b.period_date, b.end_date_time,
                          b.time_step))

\* ValidDateTime::format(): an instant, or start--end with the one period
\* that is set after a colon; a value with both periods set is refused
ValidDateTime_format(vdt) ==
    IF vdt.period_date.some /\ vdt.time_step.some THEN Err(LibraryError)
    ELSE IF ~vdt.end_date_time.some THEN Ok(to_rfc3339(vdt.start_date_time))
    ELSE Ok(to_rfc3339(vdt.start_date_time) \o <<"-", "-">>
            \o to_rfc3339(vdt.end_date_time.val)
            \o (IF vdt.period_date.some
                THEN <<":">> \o PeriodDateDisplay(vdt.period_date.val)
                ELSE IF vdt.time_step.some
                THEN <<":">> \o PeriodTimeDisplay(vdt.time_step.val)
                ELSE <<>>))

\* coords_to_str: "{lat},{lon}" of every coordinate joined by '+'; elem[1]
\* of a coordinate of fewer than two numbers is out of bounds
coords_to_str(coords) ==
    IF \E i \in 1..Len(coords) : Len(coords[i]) < 2 THEN Panic
    ELSE Text(Join([i \in 1..Len(coords) |->
                       F64ToString(coords[i][1]) \o <<",">> \o F64ToString(coords[i][2])],
                   <<"+">>))

\* a fragment is written whatever vdt.format() gave
url_fragment_lenient(formatted, parameters, coords_str, optionals) ==
    Ok((IF formatted.kind = "Ok" THEN formatted.val ELSE <<>>)
       \o <<"/">> \o Join(parameters, <<",">>) \o <<"/">> \o coords_str
       \o <<"/", "csv">>
       \o (IF optionals.some THEN <<"?">> \o Join(optionals.val, <<"&">>) ELSE <<>>))

\* let url_fragment = match optionals { .. format!(.., vdt.format()?, ..) }
url_fragment(formatted, parameters, coords_str, optionals) ==
    IF formatted.kind = "Err" THEN formatted
    ELSE Ok(formatted.val
            \o <<"/">> \o Join(parameters, <<",">>) \o <<"/">> \o coords_str
            \o <<"/", "csv">>
            \o (IF optionals.some THEN <<"?">> \o Join(optionals.val, <<"&">>)
                ELSE <<>>))

\* what the network and the body give one request: the URL join verdict,
\* the transport outcome, whether the body of a 200 makes a response
LegacyOutcomes ==
    {[url |-> "rejected", transport |-> "none"]}
    \cup {[url |-> "ok", transport |-> t] :
            t \in {"error", "200", "200_bad_csv", "403", "403_unreadable"}}

\* do_http_get and the match on its result
LegacyMatch(outcome) ==
    IF outcome.url = "rejected" THEN [requests |-> 0, result |-> Panic]
    ELSE IF outcome.transport = "error"
    THEN [requests |-> 1, result |-> Err(ApiError)]
    ELSE IF outcome.transport = "200"
    THEN [requests |-> 1, result |-> Ok("ConnectorResponse")]
    ELSE IF outcome.transport = "200_bad_csv"
    THEN [requests |-> 1, result |-> Err(GenericError)]
    ELSE IF outcome.transport = "403"
    THEN [requests |-> 1, result |-> Err(HttpError(<<"403 Forbidden">>, <<>>, 403))]
    ELSE [requests |-> 1, result |-> Panic]

legacy_query_time_series(vdt, parameters, coordinates, optionals, outcome) ==
    LET coords_str == coords_to_str(coordinates)
    IN  IF coords_str.kind = "panic"
        THEN [fragment |-> <<>>, requests |-> 0, result |-> Panic]
        ELSE LET frag == url_fragment(ValidDateTime_format(vdt), parameters,
                                      coords_str.val, optionals)
             IN  IF frag.kind = "Err"
                 THEN [fragment |-> <<>>, requests |-> 0, result |-> frag]
                 ELSE [fragment |-> frag.val] @@ LegacyMatch(outcome)

VdtBuilders ==
    [start_date_time : {None, Some(DateTime(Noon17, 0))},
     period_date : {None, Some(Days(1))},
     end_date_time : {None, Some(DateTime(Noon17 + 86400, 0))},
     time_step : {None, Some(Hours(1))}]
LegacyCoordinates == {<<<<47423336, 9377225>>>>,
                      <<<<47423336, 9377225>>, <<52520551, 13461804>>>>,
                      <<<<47423336>>>>}

Build ==
    /\ LegacyIdle
    /\ \E b \in VdtBuilders :
        /\ legacy' = LegacyCall("build", <<b>>, response_body, <<>>, 0,
                                ValidDateTimeBuilder_build(b))
        /\ UNCHANGED <<call_vars, client, tasks, shared, finished, loop, response_body>>

\* the caller unwraps what build() gave and queries with it
QueryTimeSeries ==
    /\ LegacyIdle
    /\ \E b \in VdtBuilders, parameters \in {<<T_2M>>, <<T_2M, PRECIP>>},
       coordinates \in LegacyCoordinates, optionals \in FacadeOptionals,
       outcome \in LegacyOutcomes :
        /\ ValidDateTimeBuilder_build(b).kind = "Ok"
        /\ LET vdt == ValidDateTimeBuilder_build(b).val
               out == legacy_query_time_series(vdt, parameters, coordinates,
                                               optionals, outcome)
           IN  legacy' = LegacyCall("query_time_series",
                                    <<vdt, parameters, coordinates, optionals>>,
                                    response_body, out.fragment, out.requests,
                                    out.result)
        /\ UNCHANGED <<call_vars, client, tasks, shared, finished, loop, response_body>>

\* the caller drops what the call gave back and keeps the ResponseBody
LegacyReturn ==
    /\ ~LegacyIdle
    /\ legacy' = NoLegacy
    /\ UNCHANGED <<call_vars, client, tasks, shared, finished, loop, response_body>>

NextLegacy ==
    \/ AddHeader
    \/ PopulateRecords
    \/ Build
    \/ QueryTimeSeries
    \/ LegacyReturn

SpecLegacy == InitLegacy /\ [][NextLegacy]_vars

(***************************************************************************)
(* The ResponseBody of the first revision.                                 *)
(***************************************************************************)
\* the rows a body holds beyond those it held before the call
RowsAdded == Len(response_body.response_records) - Len(legacy.before.response_records)
KeepsRows ==
    /\ response_body.response_records = legacy.before.response_records
    /\ response_body.response_indexes = legacy.before.response_indexes

\* C29: the records and the indexes of a ResponseBody always have the same
\* length, also after a populate_records that returned Err part-way; a
\* populate_records that returned Ok has appended, for every record after
\* the first header_num_elements ones and in their order, one index (the
\* first field) and one row (the other fields as floats), leaving what was
\* there and the headers alone; add_header appends the header and changes
\* neither the records nor the indexes.
C29_RecordsMatchIndexes ==
    /\ Len(response_body.response_records) = Len(response_body.response_indexes)
    /\ (legacy.op = "populate_records" /\ legacy.result.kind = "Ok") =>
          LET rdr == legacy.args[1]
              n == legacy.args[2]
              k == IF Len(rdr) > n THEN Len(rdr) - n ELSE 0
              old == Len(legacy.before.response_records)
          IN  /\ RowsAdded = k
              /\ SubSeq(response_body.response_records, 1, old)
                    = legacy.before.response_records
              /\ SubSeq(response_body.response_indexes, 1, old)
                    = legacy.before.response_indexes
              /\ response_body.response_headers = legacy.before.response_headers
              /\ \A i \in 1..k :
                    LET record == rdr[n + i].val
                        row == response_body.response_records[old + i]
                    IN  /\ rdr[n + i].kind = "Ok"
                        /\ response_body.response_indexes[old + i] = record[1]
                        /\ Len(row) = Len(record) - 1
                        /\ \A j \in 1..Len(row) :
                              ParseF64(record[j + 1]) = Some(row[j])
    /\ legacy.op = "add_header" =>
          /\ response_body.response_headers
                = Append(legacy.before.response_headers, legacy.args[1])
          /\ KeepsRows

\* a populate_records that skipped the header line of a two-line reader and
\* appended the one data line, of two values, to a body that had a row and
\* a header
C29_Witness ==
    /\ legacy.op = "populate_records"
    /\ legacy.result.kind = "Ok"
    /\ legacy.args[2] = 1
    /\ Len(legacy.args[1]) = 2
    /\ legacy.args[1][1] = Ok(HeaderRecord)
    /\ Len(legacy.before.response_records) = 1
    /\ Len(response_body.response_headers) = 2
    /\ response_body.response_indexes[2] = <<"d", "2">>
    /\ response_body.response_records[2] = <<0 - 3000000, 250000>>

\* a populate_records that returned Err after it had appended a row
C29_WitnessErrPartWay ==
    /\ legacy.op = "populate_records"
    /\ legacy.result = Err(CsvError)
    /\ RowsAdded = 1
    /\ Len(response_body.response_indexes) = Len(response_body.response_records)

\* an add_header on a body that holds rows
C29_WitnessAddHeader ==
    /\ legacy.op = "add_header"
    /\ Len(response_body.response_records) = 2
    /\ response_body.response_headers = <<<<"validdate">>, T_2M>>

(***************************************************************************)
(* A ValidDateTime with both periods.                                      *)
(***************************************************************************)
BothPeriods(vdt) == vdt.period_date.some /\ vdt.time_step.some
AllPairs(coordinates) == \A i \in 1..Len(coordinates) : Len(coordinates[i]) >= 2

\* C30: a time spec with both a period_date and a time_step is accepted by
\* ValidDateTimeBuilder::build (given a start), and a query_time_series
\* called with it renders no fragment, sends no request and, its
\* coordinates being pairs, returns an error.
C30_BothPeriodsRefused ==
    /\ (legacy.op = "build" /\ BothPeriods(legacy.args[1])
            /\ legacy.args[1].start_date_time.some) =>
          /\ legacy.result.kind = "Ok"
          /\ BothPeriods(legacy.result.val)
    /\ (legacy.op = "query_time_series" /\ BothPeriods(legacy.args[1])) =>
          /\ legacy.fragment = <<>>
          /\ legacy.requests = 0
          /\ AllPairs(legacy.args[3]) => legacy.result.kind = "Err"

\* a query with one day as period_date and one hour as time_step, an end
\* and a pair of coordinates, which returned the error of format()
C30_Witness ==
    /\ legacy.op = "query_time_series"
    /\ legacy.args[1].period_date = Some(Days(1))
    /\ legacy.args[1].time_step = Some(Hours(1))
    /\ legacy.args[1].end_date_time.some
    /\ AllPairs(legacy.args[3])
    /\ legacy.result = Err(LibraryError)
    /\ legacy.requests = 0

\* build() gave a ValidDateTime that holds both periods
C30_WitnessBuilt ==
    /\ legacy.op = "build"
    /\ legacy.result.kind = "Ok"
    /\ legacy.result.val.period_date = Some(Days(1))
    /\ legacy.result.val.time_step = Some(Hours(1))

\* the same query with the time_step alone is rendered and sent
C30_WitnessOnePeriodSent ==
    /\ legacy.op = "query_time_series"
    /\ ~legacy.args[1].period_date.some
    /\ legacy.args[1].time_step = Some(Hours(1))
    /\ legacy.args[1].end_date_time.some
    /\ legacy.requests = 1
    /\ legacy.result = Ok("ConnectorResponse")
    /\ Contains(legacy.fragment, "PT")

====
